---- MODULE Spec2Model ----
(***************************************************************************)
(* Model of more_iced_aw: the Grid widget (src/src/grid.rs), the Content   *)
(* of a parsed input and the ParsedInput widget                            *)
(* (src/src/parsed_input.rs).                                              *)
(*                                                                         *)
(* Grid::layout is modelled as a state machine: Init draws a grid, its     *)
(* children and the incoming limits from bounded sets, and the actions are *)
(* the phases of layout in source order.  The two clamped-redistribution   *)
(* loops are modelled visit by visit, the visited index being any element  *)
(* of the not-yet-visited part of the hash set.                            *)
(*                                                                         *)
(* Numbers.  The code computes in f32.  In the model a main-axis quantity   *)
(* is a numerator over main_den, a cross-axis one a numerator over         *)
(* cross_den.  Both denominators are 1 until the redistribution of that    *)
(* axis divides by fill_sum; from then on the denominator is that          *)
(* fill_sum.  While the denominator is 1 the quantities are whole numbers  *)
(* of pixels, and their sums and differences are rounded as f32 rounds     *)
(* them (F32: 24 significant bits, ties to even).  The quotient            *)
(* factor / fill_sum * space and what is computed from it are exact        *)
(* rationals: their f32 rounding is not modelled.                          *)
(* Fill factors are u16 (Length::fill_factor): sums and differences of     *)
(* factors are taken modulo 2^16 in a build without overflow checks and    *)
(* panic in a build with them.                                             *)
(*                                                                         *)
(* Indices are 1-based here and 0-based in the source.                     *)
(*                                                                         *)
(* Specifications.  Spec: layout of the bounded grids.  SpecCases: layout  *)
(* of the case grids, then the traversals (draw, operate, on_event, ...).  *)
(* SpecAxes: layout, Grid::main_axis, layout again.  SpecContent: a        *)
(* Content from Content::new on, under updates and scoped mutations.       *)
(* SpecBuild: a grid from Grid::new on, under its builders.  SpecInput: a  *)
(* ParsedInput from ParsedInput::new on, under its builders and events.    *)
(***************************************************************************)
EXTENDS Integers, Sequences, FiniteSets, TLC

\* ------------------------------------------------------------------ bounds

\* Largest number of rows of a grid.
MaxRows == 2
\* Largest number of elements of a row (the wide grids below have one more).
MaxCols == 2
\* Extent of the roomy incoming limits, on both axes.
MaxLimit == 6

\* The range of a u16 fill factor.
U16 == 65536

\* ------------------------------------------------------------------ helpers

Max(a, b) == IF a >= b THEN a ELSE b
Min(a, b) == IF a <= b THEN a ELSE b

RECURSIVE SumTo(_, _)
\* f[1] + ... + f[n]
SumTo(f, n) == IF n = 0 THEN 0 ELSE SumTo(f, n - 1) + f[n]

\* the smallest element of a finite non-empty set of integers
SetMin(S) == CHOOSE x \in S : \A y \in S : x <= y

\* the largest element of a finite non-empty set of integers
SetMax(S) == CHOOSE x \in S : \A y \in S : y <= x

Abs(a) == IF a < 0 THEN 0 - a ELSE a

RECURSIVE GCD(_, _)
\* greatest common divisor of two naturals, not both 0
GCD(a, b) == IF b = 0 THEN a ELSE GCD(b, a % b)

\* n1 / d1 = n2 / d2 for positive denominators, in lowest terms
RatEq(n1, d1, n2, d2) ==
    /\ n1 \div GCD(Abs(n1), d1) = n2 \div GCD(Abs(n2), d2)
    /\ d1 \div GCD(Abs(n1), d1) = d2 \div GCD(Abs(n2), d2)

\* ------------------------------------------------------------------ f32

\* The gap between the f32 values around the whole number n: f32 keeps 24
\* significant bits, so whole numbers are exact below 2^24 and 2, 4, 8 apart
\* from there on.
F32Ulp(n) ==
    IF Abs(n) < 2^24 THEN 1
    ELSE IF Abs(n) < 2^25 THEN 2
    ELSE IF Abs(n) < 2^26 THEN 4
    ELSE 8

\* The f32 result of an addition or subtraction whose exact result is the
\* whole number n: the nearest f32 value, a tie going to the even significand.
F32(n) ==
    LET u == F32Ulp(n)
        q == n \div u
        r == n % u
    IN  IF 2 * r < u THEN q * u
        ELSE IF 2 * r > u THEN (q + 1) * u
        ELSE IF q % 2 = 0 THEN q * u
        ELSE (q + 1) * u

\* ------------------------------------------------------------------ Length

\* iced's Length.  Fill is FillPortion(1).
Shrink == [k |-> "Shrink", v |-> 0]
FillPortion(f) == [k |-> "FillPortion", v |-> f]
Fixed(px) == [k |-> "Fixed", v |-> px]

\* Length::fill_factor
fill_factor(len) == IF len.k = "FillPortion" THEN len.v ELSE 0

\* Limits::resolve on one axis of Limits::new(Size::ZERO, max), for a child of
\* the given length and intrinsic extent; max is the numerator maxNum over den,
\* and so is the result.
ResolveAxis(len, intrinsic, maxNum, den) ==
    CASE len.k = "FillPortion" -> maxNum
      [] len.k = "Fixed" -> Max(Min(len.v * den, maxNum), 0)
      [] OTHER -> Max(Min(intrinsic * den, maxNum), 0)

\* elt.as_widget().layout(tree, renderer, &Limits::new(Size::ZERO, max)):
\* a child resolves its own lengths against the limits it is given.
ChildLayout(elt, maxW, wden, maxH, hden) ==
    [w |-> ResolveAxis(elt.width, elt.iw, maxW, wden),
     h |-> ResolveAxis(elt.height, elt.ih, maxH, hden)]

\* ------------------------------------------------------------------ Axis

\* Axis::pack and Axis::size_pack
pack(axis, width, height) ==
    IF axis = "Horizontal" THEN <<width, height>> ELSE <<height, width>>

\* Axis::main
AxisMain(axis, size) == IF axis = "Horizontal" THEN size.w ELSE size.h

\* Axis::cross
AxisCross(axis, size) == IF axis = "Horizontal" THEN size.h ELSE size.w

\* ------------------------------------------------------------------ state

VARIABLES
    grid,              \* the Grid: rows, width, height, padding, alignment, spacing, axis
    limits,            \* the incoming limits: [max_w, max_h], minimum zero
    pc,                \* position in Grid::layout
    main,              \* let mut main
    sec_main_factor,   \* per secondary track: main fill factor
    prim_cross_factor, \* per primary track: cross fill factor
    sec_main,          \* per secondary track: main size, numerator over main_den
    main_den,          \* denominator of the main-axis quantities
    cross,             \* let mut cross
    prim_cross,        \* per primary track: cross size, numerator over cross_den
    cross_den,         \* denominator of the cross-axis quantities
    not_clamped,       \* the HashSet of the redistribution under way
    indexes,           \* the part of `indexes` the current pass has yet to visit
    fill_sum,          \* let mut fill_sum (u16)
    finished,          \* let mut finished
    passes,            \* passes of the while loop begun, per axis: [main, cross]
    pass_start,        \* not_clamped as the current pass found it
    sec_min,           \* sec_main as the first pass left it
    prim_min,          \* prim_cross as the cross measurement left it
    nodes,             \* nodes[<<a, b>>]: the child's node (size, then position)
    out,               \* the returned Node: size, content extent, children
    wrapped,           \* a u16 operation has wrapped (build without overflow checks)
    elts_trees,        \* elts_trees[a][b]: <<element, tree>> as layout paired them
    visited,           \* the <<<<element, tree>>, node>> triples of the last traversal
    prev,              \* the result of the layout before main_axis was last set
    calls,             \* calls[<<a, b>>]: the layout calls made on the child, in order
    built,             \* what Grid::new and the builders have set: the fields, the rows pushed
    parsed_input,      \* a ParsedInput: the widget, a panic, the last operation on it
    content,           \* a Content<T, E>: [value, string, error]
    handle,            \* the BorrowMut of content: "none" or "open"
    hist               \* what was done to content: the last operation and its inputs

vars == <<grid, limits, pc, main, sec_main_factor, prim_cross_factor, sec_main,
          main_den, cross, prim_cross, cross_den, not_clamped, indexes, fill_sum,
          finished, passes, pass_start, sec_min, prim_min, nodes, out, wrapped,
          elts_trees, visited, prev, calls, built, parsed_input, content, handle, hist>>

\* ------------------------------------------------------------------ inputs

\* The children a grid is built from: each resolves its own width and height
\* (Shrink around an intrinsic content size iw x ih, or a fill portion).
Kinds ==
    { [width |-> Shrink,             height |-> Shrink,             iw |-> 4, ih |-> 3],
      [width |-> FillPortion(1),     height |-> Shrink,             iw |-> 0, ih |-> 2],
      [width |-> Shrink,             height |-> FillPortion(1),     iw |-> 2, ih |-> 0],
      [width |-> FillPortion(2),     height |-> FillPortion(2),     iw |-> 0, ih |-> 0],
      [width |-> FillPortion(U16-1), height |-> FillPortion(U16-1), iw |-> 0, ih |-> 0] }

\* A row: up to MaxCols children.  Rows need not have the same length.
RowSet == UNION { [1..n -> Kinds] : n \in 0..MaxCols }

\* The rows of a grid: up to MaxRows rows.
RowsSet == UNION { [1..m -> RowSet] : m \in 0..MaxRows }

\* The grid's own <<width, height>>.
Modes ==
    { <<Shrink, Shrink>>, <<FillPortion(1), FillPortion(1)>>,
      <<FillPortion(1), Shrink>>, <<Shrink, Fixed(5)>> }

\* <<column_spacing, row_spacing>>: non-negative pixels.
Spacings == { <<0, 0>>, <<2, 1>> }

\* Padding and alignment, set together.
Styles ==
    { [padding |-> [top |-> 0, right |-> 0, bottom |-> 0, left |-> 0],
       horizontal_align |-> "Left", vertical_align |-> "Center"],
      [padding |-> [top |-> 1, right |-> 0, bottom |-> 0, left |-> 1],
       horizontal_align |-> "Right", vertical_align |-> "Top"] }

Grids ==
    { [rows |-> r, width |-> m[1], height |-> m[2], padding |-> s.padding,
       horizontal_align |-> s.horizontal_align, vertical_align |-> s.vertical_align,
       column_spacing |-> sp[1], row_spacing |-> sp[2], axis |-> ax] :
        r \in RowsSet, m \in Modes, s \in Styles, sp \in Spacings,
        ax \in {"Horizontal", "Vertical"} }

\* Incoming limits: Limits::new(Size::ZERO, max), roomy or tight.
LimitsSet == { [max_w |-> MaxLimit, max_h |-> MaxLimit - 1], [max_w |-> 1, max_h |-> 1] }

\* Children whose intrinsic width is past the whole numbers that f32 adds and
\* subtracts exactly once it is taken from a width near 2^25.
WideKinds ==
    { [width |-> Shrink, height |-> Shrink, iw |-> 11200001, ih |-> 3],
      [width |-> Shrink, height |-> Shrink, iw |-> 11200003, ih |-> 2] }

\* A child that fills the width of its cell.
FillWidth == [width |-> FillPortion(1), height |-> Shrink, iw |-> 0, ih |-> 2]

\* The wide grids: a row of MaxCols + 1 children that fill their columns, over
\* a row of MaxCols wide children.
WideGrids ==
    { [rows |-> << [b \in 1..(MaxCols + 1) |-> FillWidth], r >>,
       width |-> m[1], height |-> m[2], padding |-> s.padding,
       horizontal_align |-> s.horizontal_align, vertical_align |-> s.vertical_align,
       column_spacing |-> 0, row_spacing |-> 0, axis |-> ax] :
        r \in { w \in [1..MaxCols -> WideKinds] : \A b \in 1..(MaxCols - 1) : w[b] # w[b + 1] },
        m \in Modes, s \in Styles, ax \in {"Horizontal", "Vertical"} }

\* The limits of the wide grids: a width of 2^25 - 2, which f32 holds.
WideLimits == [max_w |-> 2^25 - 2, max_h |-> MaxLimit - 1]

\* The tight limits are tried on the grids with spacing: there the spacing
\* alone can exceed the space.
Inputs ==
    { gl \in Grids \X LimitsSet : gl[2].max_w = 1 => gl[1].column_spacing > 0 }
        \cup (WideGrids \X {WideLimits})

\* ------------------------------------------------------------------ budget

rows == grid.rows
axis == grid.axis

\* Padding::horizontal, Padding::vertical
PadH == grid.padding.left + grid.padding.right
PadV == grid.padding.top + grid.padding.bottom

\* Limits::width / Limits::height on the incoming limits (minimum zero).
LimitTo(len, max) == IF len.k = "Fixed" THEN Max(Min(len.v, max), 0) ELSE max

\* limits.height(self.height).width(self.width).shrink(self.padding).max()
ShrunkMax ==
    [w |-> Max(F32(LimitTo(grid.width, limits.max_w) - PadH), 0),
     h |-> Max(F32(LimitTo(grid.height, limits.max_h) - PadV), 0)]

max_main == AxisMain(axis, ShrunkMax)
max_cross == AxisCross(axis, ShrunkMax)

\* The sizing mode of the other axis taken for the main one.
main_lengthOfCross == pack(axis, grid.width, grid.height)[2]

main_length == pack(axis, grid.width, grid.height)[1]
cross_length == pack(axis, grid.width, grid.height)[2]

\* The length of the row at a alone, the fold over the rows dropped: the first
\* row would decide how many columns there are.
LongestFirst(a) == IF a > Len(rows) THEN 0 ELSE Len(rows[a])

RECURSIVE LongestFrom(_)
\* self.rows.iter().fold(0, |len, vec| len.max(vec.len())), from row a on
LongestFrom(a) == IF a > Len(rows) THEN 0 ELSE Max(Len(rows[a]), LongestFrom(a + 1))

nb_columns == LongestFrom(1)
nb_rows == Len(rows)

nb_prim == pack(axis, nb_rows, nb_columns)[1]
nb_sec == pack(axis, nb_rows, nb_columns)[2]

main_spacing == pack(axis, grid.column_spacing, grid.row_spacing)[1]
cross_spacing == pack(axis, grid.column_spacing, grid.row_spacing)[2]

\* usize::saturating_sub(1)
SatSub1(n) == IF n = 0 THEN 0 ELSE n - 1

main_total_spacing == main_spacing * SatSub1(nb_sec)
cross_total_spacing == cross_spacing * SatSub1(nb_prim)

main_max == F32(max_main - main_total_spacing)
cross_max == F32(max_cross - cross_total_spacing)

\* ------------------------------------------------------------------ cells

\* The cells that hold an element: <<a, b>> is element b of row a.
Cells == { ab \in (1..nb_rows) \X (1..nb_columns) : ab[2] <= Len(rows[ab[1]]) }

\* elts_trees.get_mut(a).and_then(|vec| vec.get_mut(b)) is Some, (a, b) = axis.pack(i, j)
HasElt(i, j) == pack(axis, i, j) \in Cells

\* the element of primary index i and secondary index j
EltAt(i, j) == rows[pack(axis, i, j)[1]][pack(axis, i, j)[2]]

\* axis.size_pack(elt.as_widget().size()), as fill factors
\* The fill factor of the other axis taken for the main one.
MainFactorOfCross(elt) == fill_factor(pack(axis, elt.width, elt.height)[2])

MainFactor(elt) == fill_factor(pack(axis, elt.width, elt.height)[1])
CrossFactor(elt) == fill_factor(pack(axis, elt.width, elt.height)[2])

\* ------------------------------------------------------------------ elements and trees

RECURSIVE FlattenFrom(_, _)
\* iter().flatten(): the items of the rows vv[a], vv[a + 1], ... one row after
\* the other
FlattenFrom(vv, a) ==
    IF a > Len(vv) THEN <<>> ELSE vv[a] \o FlattenFrom(vv, a + 1)

\* the elements by name: element b of row a is named <<a, b>>
Elements == [a \in 1..Len(rows) |-> [b \in 1..Len(rows[a]) |-> <<a, b>>]]

\* self.rows.iter().flatten()
get_elements == FlattenFrom(Elements, 1)

\* tree.children as Widget::children and diff build it: one tree per element of
\* get_elements; tree k is named k and holds the state of the k-th element
children == [k \in 1..Len(get_elements) |-> k]

\* Iterator::zip: the pairs of s and t, as many as the shorter has items
Zip(s, t) == [k \in 1..Min(Len(s), Len(t)) |-> <<s[k], t[k]>>]

\* A zip that asks the trees before the elements: at the end of a row it has
\* already taken a tree, which is lost.
ZipTakenTreesFirst(n, m) == Min(n + 1, m)

\* The number of trees `vec.iter().zip(&mut iter)` takes from iter, n the length
\* of the row and m the number of trees left: Zip::next asks vec.iter() first and
\* returns None without touching iter once the row has ended.
ZipTaken(n, m) == Min(n, m)

RECURSIVE EltsTreesFrom(_, _)
\* the rows a, a + 1, ... of elts_trees, it the trees the shared iterator has left
EltsTreesFrom(a, it) ==
    IF a > Len(rows) THEN <<>>
    ELSE <<Zip(Elements[a], it)>> \o
         EltsTreesFrom(a + 1, SubSeq(it, ZipTaken(Len(rows[a]), Len(it)) + 1, Len(it)))

\* elts_trees as layout builds it
EltsTrees == EltsTreesFrom(1, children)

\* nodes.into_iter().flatten(): the nodes by name, row after row; nodes has a
\* row per row of the grid and a node per element of it
NodesFlattened ==
    FlattenFrom([a \in 1..nb_rows |->
                   [b \in 1..Cardinality({ ab \in DOMAIN nodes : ab[1] = a }) |-> <<a, b>>]], 1)

\* ------------------------------------------------------------------ first pass

\* sec_main_factor[j] after the first pass
SecFactor(j) ==
    SetMax({0} \cup { MainFactor(EltAt(i, j)) : i \in { p \in 1..nb_prim : HasElt(p, j) } })

\* prim_cross_factor[i] after the first pass
PrimFactor(i) ==
    SetMax({0} \cup { CrossFactor(EltAt(i, j)) : j \in { s \in 1..nb_sec : HasElt(i, s) } })

\* the layout of the child of primary track i and secondary track j in the
\* first pass, against axis.pack(m, cross_max), m the value of `main`
FirstLayout(i, j, m) ==
    ChildLayout(EltAt(i, j), pack(axis, m, cross_max)[1], 1, pack(axis, m, cross_max)[2], 1)

\* one call of elt.as_widget().layout: the loop that made it and the node it
\* returned, a numerator over the denominators of that moment
Call(phase, node, wden, hden) == [phase |-> phase, node |-> node, wden |-> wden, hden |-> hden]

\* sec_main[j] after the inner loop of the first pass, m the value of `main`
\* on entry: the children of track j with main fill factor 0 are laid out
\* against (m, cross_max) and the largest main extent is kept.
TrackMain(j, m) ==
    SetMax({0} \cup
        { AxisMain(axis, FirstLayout(i, j, m)) :
            i \in { p \in 1..nb_prim : HasElt(p, j) /\ MainFactor(EltAt(p, j)) = 0 } })

\* The whole usable main space for every track, `main -= sec_main[j]` dropped.
MainBeforeWhole(j) == main_max

RECURSIVE MainBefore(_)
\* the value of `main` on entry of track j in the first pass: main -= sec_main[j]
\* after every track before it
MainBefore(j) ==
    IF j = 1 THEN main_max
    ELSE F32(MainBefore(j - 1) - TrackMain(j - 1, MainBefore(j - 1)))

\* ------------------------------------------------------------------ redistribution

\* The comparison the other way round: a track would be clamped when its share
\* is above its size.
ShareMore(factor, sum, space, min) ==
    IF sum > 0 THEN factor * space > min * sum ELSE FALSE

\* `size < min` for size = factor as f32 / sum as f32 * space (space an integer
\* here).  With sum = 0 the quotient is NaN (factor 0) or +inf (factor > 0), and
\* the product NaN, +inf or -inf: only -inf is below min.
ShareLess(factor, sum, space, min) ==
    IF sum > 0 THEN factor * space < min * sum
    ELSE factor > 0 /\ space < 0

\* The share alone, the track's own size dropped from the maximum: a clamped
\* track, its factor zeroed, would end with no size at all.
FinalSizeShareOnly(factor, sum, space, min) ==
    IF sum > 0 THEN factor * space ELSE 0

\* The whole space handed to a track when the pool of factors is empty.
FinalSizeSpaceWhenEmpty(factor, sum, space, min) ==
    IF sum > 0 THEN Max(min * sum, factor * space) ELSE Max(min, space)

\* the largest of `min` and the share factor / sum * space (0 if sum = 0), as a
\* numerator over Den(sum)
FinalSize(factor, sum, space, min) ==
    IF sum > 0 THEN Max(min * sum, factor * space) ELSE Max(min, 0)

\* the denominator the redistribution leaves its axis with
Den(sum) == IF sum > 0 THEN sum ELSE 1

\* The set left as it is, not_clamped.remove dropped: a clamped track would be
\* visited, and clamped, pass after pass.
NotClampedKept(clamp, set, k) == set

\* not_clamped after a visit of index k: not_clamped.remove(&k) on a clamp
NotClampedAfter(clamp, set, k) == IF clamp THEN set \ {k} ELSE set

\* fill_sum after a visit: fill_sum -= factor on a clamp, in u16
FillSumAfter(clamp, sum, factor) == IF clamp THEN (sum - factor) % U16 ELSE sum

\* ------------------------------------------------------------------ layout

\* The locals of layout before it starts.
InitLocals ==
    /\ pc = "start"
    /\ main = 0
    /\ sec_main_factor = <<>>
    /\ prim_cross_factor = <<>>
    /\ sec_main = <<>>
    /\ main_den = 1
    /\ cross = 0
    /\ prim_cross = <<>>
    /\ cross_den = 1
    /\ not_clamped = {}
    /\ indexes = {}
    /\ fill_sum = 0
    /\ finished = FALSE
    /\ passes = [main |-> 0, cross |-> 0]
    /\ pass_start = {}
    /\ sec_min = <<>>
    /\ prim_min = <<>>
    /\ nodes = <<>>
    /\ out = <<>>
    /\ wrapped = FALSE
    /\ elts_trees = <<>>
    /\ visited = <<>>
    /\ prev = <<>>
    /\ calls = <<>>

\* no grid is under construction
NoBuilder == built = <<>>

\* no ParsedInput is under study
NoInput == parsed_input = <<>>

\* no Content is under study
NoContent ==
    /\ content = <<>>
    /\ handle = "none"
    /\ hist = <<>>

Init ==
    /\ \E gl \in Inputs : grid = gl[1] /\ limits = gl[2]
    /\ InitLocals
    /\ NoBuilder
    /\ NoInput
    /\ NoContent

inputs == <<grid, limits, visited, prev, built, parsed_input, content, handle, hist>>
loop == <<not_clamped, indexes, fill_sum, finished, passes, pass_start>>
mainv == <<main, sec_main_factor, sec_main, main_den, sec_min>>
crossv == <<cross, prim_cross, cross_den, prim_min>>

\* The first pass: the fill factors of every track and the intrinsic main size
\* of every secondary track, `main` shrinking from track to track.
FirstPass ==
    /\ pc = "start"
    /\ sec_main_factor' = [j \in 1..nb_sec |-> SecFactor(j)]
    /\ prim_cross_factor' = [i \in 1..nb_prim |-> PrimFactor(i)]
    /\ sec_main' = [j \in 1..nb_sec |-> TrackMain(j, MainBefore(j))]
    /\ sec_min' = sec_main'
    /\ main' = MainBefore(nb_sec + 1)
    /\ elts_trees' = EltsTrees
    /\ calls' = [ab \in Cells |->
                   LET i == pack(axis, ab[1], ab[2])[1]
                       j == pack(axis, ab[1], ab[2])[2]
                   IN  IF MainFactor(EltAt(i, j)) = 0
                       THEN <<Call("first", FirstLayout(i, j, MainBefore(j)), 1, 1)>>
                       ELSE <<>>]
    /\ pc' = "main_sum"
    /\ UNCHANGED <<inputs, loop, crossv, main_den, nodes, out, wrapped>>

\* main_length == Shrink: the secondary tracks keep their intrinsic size.
MainShrink ==
    /\ pc = "main_sum"
    /\ main_length = Shrink
    /\ pc' = "cross_measure"
    /\ UNCHANGED <<inputs, elts_trees, calls, loop, mainv, crossv, prim_cross_factor, nodes, out, wrapped>>

\* main_length != Shrink: the set-up of the redistribution.  The u16 sum of the
\* factors fits, or it wraps (no overflow checks) or panics (overflow checks).
MainSum ==
    /\ pc = "main_sum"
    /\ main_length # Shrink
    /\ not_clamped' = 1..nb_sec
    /\ main' = F32(max_main - main_total_spacing)
    /\ finished' = FALSE
    /\ indexes' = {}
    /\ pass_start' = {}
    /\ passes' = passes
    /\ LET sum == SumTo(sec_main_factor, nb_sec) IN
         \/ /\ sum < U16
            /\ fill_sum' = sum
            /\ pc' = "main_loop"
            /\ wrapped' = wrapped
         \/ /\ sum >= U16
            /\ fill_sum' = sum % U16
            /\ pc' = "main_loop"
            /\ wrapped' = TRUE
         \/ /\ sum >= U16
            /\ ~wrapped
            /\ fill_sum' = fill_sum
            /\ pc' = "panic"
            /\ wrapped' = wrapped
    /\ UNCHANGED <<inputs, elts_trees, calls, sec_main_factor, sec_main, main_den, sec_min, crossv,
                   prim_cross_factor, nodes, out>>

\* while !finished && fill_sum > 0 { finished = true; indexes = not_clamped ...
MainPassBegin ==
    /\ pc = "main_loop"
    /\ ~finished /\ fill_sum > 0
    /\ finished' = TRUE
    /\ indexes' = not_clamped
    /\ pass_start' = not_clamped
    /\ passes' = [passes EXCEPT !.main = @ + 1]
    /\ pc' = IF not_clamped = {} THEN "main_loop" ELSE "main_pass"
    /\ UNCHANGED <<inputs, elts_trees, calls, not_clamped, fill_sum, mainv, crossv, prim_cross_factor,
                   nodes, out, wrapped>>

\* One iteration of `for j in indexes`, j being whichever index the hash set
\* yields next.  A clamp subtracts the factor from fill_sum: below zero the u16
\* wraps, which only a sum that wrapped before makes possible.
MainVisit ==
    /\ pc = "main_pass"
    /\ \E j \in indexes :
        LET factor == sec_main_factor[j]
            sec_size == sec_main[j]
            clamp == ShareLess(factor, fill_sum, main, sec_size)
            under == clamp /\ factor > fill_sum /\ ~wrapped
        IN  /\ indexes' = indexes \ {j}
            /\ finished' = IF clamp THEN FALSE ELSE finished
            /\ fill_sum' = FillSumAfter(clamp, fill_sum, factor)
            /\ not_clamped' = NotClampedAfter(clamp, not_clamped, j)
            /\ sec_main_factor' =
                 IF clamp THEN [sec_main_factor EXCEPT ![j] = 0] ELSE sec_main_factor
            /\ main' = IF clamp THEN F32(main - sec_size) ELSE main
            /\ pc' = IF under THEN "panic"
                     ELSE IF indexes \ {j} = {} THEN "main_loop" ELSE "main_pass"
    /\ UNCHANGED <<inputs, elts_trees, calls, passes, pass_start, sec_main, main_den, sec_min, crossv,
                   prim_cross_factor, nodes, out, wrapped>>

\* After the loop: every track gets the larger of its intrinsic size and its share.
MainFinal ==
    /\ pc = "main_loop"
    /\ finished \/ fill_sum = 0
    /\ sec_main' = [j \in 1..nb_sec |->
                      FinalSize(sec_main_factor[j], fill_sum, main, sec_main[j])]
    /\ main_den' = Den(fill_sum)
    /\ pc' = "cross_measure"
    /\ UNCHANGED <<inputs, elts_trees, calls, loop, main, sec_main_factor, sec_min, crossv,
                   prim_cross_factor, nodes, out, wrapped>>

\* ------------------------------------------------------------------ cross axis

\* denominators of widths and of heights
WDen == pack(axis, main_den, cross_den)[1]
HDen == pack(axis, main_den, cross_den)[2]

\* The child laid out against the whole cross extent whatever its track.
LayoutInMaxCross(i, j, c) ==
    ChildLayout(EltAt(i, j),
                pack(axis, sec_main[j], max_cross)[1], WDen,
                pack(axis, sec_main[j], max_cross)[2], HDen)

\* The layout of the element at (i, j) against the main size of its secondary
\* track and the cross extent c (a numerator over cross_den).
LayoutIn(i, j, c) ==
    ChildLayout(EltAt(i, j),
                pack(axis, sec_main[j], c)[1], WDen,
                pack(axis, sec_main[j], c)[2], HDen)

\* prim_cross[i] after the inner loop of the cross measurement, c the value of
\* `cross` on entry: the children of track i with cross fill factor 0 are laid
\* out against (sec_main[j], c) and the largest cross extent is kept.
TrackCross(i, c) ==
    SetMax({0} \cup
        { AxisCross(axis, LayoutIn(i, j, c)) :
            j \in { s \in 1..nb_sec : HasElt(i, s) /\ CrossFactor(EltAt(i, s)) = 0 } })

RECURSIVE CrossBefore(_)
\* the value of `cross` on entry of track i in the cross measurement
CrossBefore(i) ==
    IF i = 1 THEN max_cross
    ELSE F32(CrossBefore(i - 1) - TrackCross(i - 1, CrossBefore(i - 1)))

\* Node::default()
DefaultNode == [w |-> 0, h |-> 0]

\* The cross measurement: the intrinsic cross size of every primary track,
\* `cross` shrinking from track to track, and the nodes of the children with
\* cross fill factor 0.
CrossMeasure ==
    /\ pc = "cross_measure"
    /\ prim_cross' = [i \in 1..nb_prim |-> TrackCross(i, CrossBefore(i))]
    /\ prim_min' = prim_cross'
    /\ cross' = CrossBefore(nb_prim + 1)
    /\ nodes' = [ab \in Cells |->
                   LET i == pack(axis, ab[1], ab[2])[1]
                       j == pack(axis, ab[1], ab[2])[2]
                   IN  IF CrossFactor(EltAt(i, j)) = 0
                       THEN LayoutIn(i, j, CrossBefore(i))
                       ELSE DefaultNode]
    /\ calls' = [ab \in Cells |->
                   LET i == pack(axis, ab[1], ab[2])[1]
                       j == pack(axis, ab[1], ab[2])[2]
                   IN  IF CrossFactor(EltAt(i, j)) = 0
                       THEN Append(calls[ab], Call("cross", LayoutIn(i, j, CrossBefore(i)), WDen, HDen))
                       ELSE calls[ab]]
    /\ pc' = "cross_sum"
    /\ UNCHANGED <<inputs, elts_trees, loop, mainv, cross_den, prim_cross_factor, out, wrapped>>

\* cross_length == Shrink: the primary tracks keep their intrinsic size.
CrossShrink ==
    /\ pc = "cross_sum"
    /\ cross_length = Shrink
    /\ pc' = "final_nodes"
    /\ UNCHANGED <<inputs, elts_trees, calls, loop, mainv, crossv, prim_cross_factor, nodes, out, wrapped>>

\* cross_length != Shrink: the set-up of the redistribution, as on the main axis.
CrossSum ==
    /\ pc = "cross_sum"
    /\ cross_length # Shrink
    /\ not_clamped' = 1..nb_prim
    /\ cross' = F32(max_cross - cross_total_spacing)
    /\ finished' = FALSE
    /\ indexes' = {}
    /\ pass_start' = {}
    /\ passes' = passes
    /\ LET sum == SumTo(prim_cross_factor, nb_prim) IN
         \/ /\ sum < U16
            /\ fill_sum' = sum
            /\ pc' = "cross_loop"
            /\ wrapped' = wrapped
         \/ /\ sum >= U16
            /\ fill_sum' = sum % U16
            /\ pc' = "cross_loop"
            /\ wrapped' = TRUE
         \/ /\ sum >= U16
            /\ ~wrapped
            /\ fill_sum' = fill_sum
            /\ pc' = "panic"
            /\ wrapped' = wrapped
    /\ UNCHANGED <<inputs, elts_trees, calls, mainv, prim_cross, cross_den, prim_min, prim_cross_factor,
                   nodes, out>>

\* while !finished && fill_sum > 0 { finished = true; indexes = not_clamped ...
CrossPassBegin ==
    /\ pc = "cross_loop"
    /\ ~finished /\ fill_sum > 0
    /\ finished' = TRUE
    /\ indexes' = not_clamped
    /\ pass_start' = not_clamped
    /\ passes' = [passes EXCEPT !.cross = @ + 1]
    /\ pc' = IF not_clamped = {} THEN "cross_loop" ELSE "cross_pass"
    /\ UNCHANGED <<inputs, elts_trees, calls, not_clamped, fill_sum, mainv, crossv, prim_cross_factor,
                   nodes, out, wrapped>>

\* One iteration of `for i in indexes`, in whichever order the hash set yields.
CrossVisit ==
    /\ pc = "cross_pass"
    /\ \E i \in indexes :
        LET factor == prim_cross_factor[i]
            prim_size == prim_cross[i]
            clamp == ShareLess(factor, fill_sum, cross, prim_size)
            under == clamp /\ factor > fill_sum /\ ~wrapped
        IN  /\ indexes' = indexes \ {i}
            /\ finished' = IF clamp THEN FALSE ELSE finished
            /\ fill_sum' = FillSumAfter(clamp, fill_sum, factor)
            /\ not_clamped' = NotClampedAfter(clamp, not_clamped, i)
            /\ prim_cross_factor' =
                 IF clamp THEN [prim_cross_factor EXCEPT ![i] = 0] ELSE prim_cross_factor
            /\ cross' = IF clamp THEN F32(cross - prim_size) ELSE cross
            /\ pc' = IF under THEN "panic"
                     ELSE IF indexes \ {i} = {} THEN "cross_loop" ELSE "cross_pass"
    /\ UNCHANGED <<inputs, elts_trees, calls, passes, pass_start, mainv, prim_cross, cross_den, prim_min,
                   nodes, out, wrapped>>

\* After the loop: every track gets the larger of its intrinsic size and its
\* share.  The cross extents kept so far move to the new denominator.
CrossFinal ==
    /\ pc = "cross_loop"
    /\ finished \/ fill_sum = 0
    /\ prim_cross' = [i \in 1..nb_prim |->
                        FinalSize(prim_cross_factor[i], fill_sum, cross, prim_cross[i])]
    /\ cross_den' = Den(fill_sum)
    /\ nodes' = [ab \in Cells |->
                   IF axis = "Horizontal"
                   THEN [nodes[ab] EXCEPT !.h = @ * Den(fill_sum)]
                   ELSE [nodes[ab] EXCEPT !.w = @ * Den(fill_sum)]]
    /\ pc' = "final_nodes"
    /\ UNCHANGED <<inputs, elts_trees, calls, loop, mainv, cross, prim_min, prim_cross_factor, out, wrapped>>

\* The children with a non-zero cross fill factor are laid out against their cell.
FinalNodes ==
    /\ pc = "final_nodes"
    /\ nodes' = [ab \in Cells |->
                   LET i == pack(axis, ab[1], ab[2])[1]
                       j == pack(axis, ab[1], ab[2])[2]
                   IN  IF CrossFactor(EltAt(i, j)) # 0
                       THEN LayoutIn(i, j, prim_cross[i])
                       ELSE nodes[ab]]
    /\ calls' = [ab \in Cells |->
                   LET i == pack(axis, ab[1], ab[2])[1]
                       j == pack(axis, ab[1], ab[2])[2]
                   IN  IF CrossFactor(EltAt(i, j)) # 0
                       THEN Append(calls[ab], Call("final", LayoutIn(i, j, prim_cross[i]), WDen, HDen))
                       ELSE calls[ab]]
    /\ pc' = "position"
    /\ UNCHANGED <<inputs, elts_trees, loop, mainv, crossv, prim_cross_factor, out, wrapped>>

\* ------------------------------------------------------------------ positions

\* Positions and the reported size are numerators over PosW (x, widths) and
\* PosH (y, heights): twice the track denominators, so that the halving of a
\* centred alignment stays exact.
PosW == 2 * WDen
PosH == 2 * HDen

\* axis.pack(sec_main[j], prim_cross[i]) for (i, j) = axis.pack(a, b): the
\* <<width, height>> of the cell of element b of row a, over <<WDen, HDen>>
CellSize(a, b) ==
    pack(axis, sec_main[pack(axis, a, b)[2]], prim_cross[pack(axis, a, b)[1]])

RECURSIVE XAt(_, _)

\* The cursor x advancing by the cells alone, the column spacing dropped.
XAtNoSpacing(a, b) ==
    IF b = 1 THEN grid.padding.left * PosW
    ELSE XAt(a, b - 1) + 2 * CellSize(a, b - 1)[1]

\* the cursor x when element b of row a is reached, over PosW
XAt(a, b) ==
    IF b = 1 THEN grid.padding.left * PosW
    ELSE XAt(a, b - 1) + 2 * CellSize(a, b - 1)[1] + grid.column_spacing * PosW

\* The spacing alone, the size of the row dropped from the advance: the rows
\* would pile up on each other.
RowAdvanceSpacingOnly(a) == grid.row_spacing * PosH

\* what y advances by after row a, over PosH
RowAdvance(a) ==
    2 * (IF axis = "Horizontal" THEN prim_cross[a] ELSE sec_main[a])
      + grid.row_spacing * PosH

RECURSIVE YAt(_)
\* the cursor y when row a is reached, over PosH
YAt(a) == IF a = 1 THEN grid.padding.top * PosH ELSE YAt(a - 1) + RowAdvance(a - 1)

\* Node::align_mut on one axis: what the origin moves by, twice the extents
\* `space` and `size` being given
AlignOffset(alignment, space, size) ==
    CASE alignment \in {"Left", "Top"} -> 0
      [] alignment = "Center" -> (space - size) \div 2
      [] OTHER -> space - size

\* Limits::resolve on one axis of the incoming limits
Resolve(len, max, den, intrinsic) ==
    CASE len.k = "FillPortion" -> max * den
      [] len.k = "Fixed" -> Max(Min(len.v, max), 0) * den
      [] OTHER -> Max(Min(intrinsic, max * den), 0)

\* The nodes are moved to their cells and aligned in them; the size of the
\* grid is resolved from the tracks, the spacing and the padding.
Position ==
    /\ pc = "position"
    /\ nodes' = [ab \in Cells |->
                   LET cw == 2 * CellSize(ab[1], ab[2])[1]
                       ch == 2 * CellSize(ab[1], ab[2])[2]
                       nw == 2 * nodes[ab].w
                       nh == 2 * nodes[ab].h
                   IN  [x |-> XAt(ab[1], ab[2]) + AlignOffset(grid.horizontal_align, cw, nw),
                        y |-> YAt(ab[1]) + AlignOffset(grid.vertical_align, ch, nh),
                        w |-> nw, h |-> nh,
                        cell |-> [x |-> XAt(ab[1], ab[2]), y |-> YAt(ab[1]),
                                  w |-> cw, h |-> ch]]]
    /\ LET intrinsic == pack(axis,
                             2 * SumTo(sec_main, nb_sec) + main_total_spacing * 2 * main_den,
                             2 * SumTo(prim_cross, nb_prim) + cross_total_spacing * 2 * cross_den)
       IN  out' = [content |-> [w |-> intrinsic[1], h |-> intrinsic[2]],
                   size |-> [w |-> Resolve(grid.width, limits.max_w, PosW,
                                           intrinsic[1] + PadH * PosW),
                             h |-> Resolve(grid.height, limits.max_h, PosH,
                                           intrinsic[2] + PadV * PosH)],
                   children |-> NodesFlattened]
    /\ pc' = "done"
    /\ UNCHANGED <<inputs, elts_trees, calls, loop, mainv, crossv, prim_cross_factor, wrapped>>

Next ==
    \/ FirstPass
    \/ MainShrink
    \/ MainSum
    \/ MainPassBegin
    \/ MainVisit
    \/ MainFinal
    \/ CrossMeasure
    \/ CrossShrink
    \/ CrossSum
    \/ CrossPassBegin
    \/ CrossVisit
    \/ CrossFinal
    \/ FinalNodes
    \/ Position

Spec == Init /\ [][Next]_vars

\* ------------------------------------------------------------------ phases

\* layout has returned
Done == pc = "done"

\* the main sizes of the secondary tracks are final
MainResolved == pc \in {"cross_measure", "cross_sum", "cross_loop", "cross_pass",
                        "final_nodes", "position", "done"}

\* the cross sizes of the primary tracks are final
CrossResolved == pc \in {"final_nodes", "position", "done"}

\* the main redistribution has just ended: its locals are still in place
MainJustResolved == pc = "cross_measure" /\ main_length # Shrink

\* the cross redistribution has just ended: its locals are still in place
CrossJustResolved == pc = "final_nodes" /\ cross_length # Shrink

\* the exact sum of the main fill factors of the tracks
SecFactorTotal == SumTo([j \in 1..nb_sec |-> SecFactor(j)], nb_sec)

\* ------------------------------------------------------------------ C1

\* C1: when the sizing mode of an axis is not Shrink, every track's final size
\* on that axis is at least the intrinsic minimum measured for it before the
\* redistribution (main axis: first pass; cross axis: cross measurement).
C1_TrackMinimum ==
    /\ (MainResolved /\ main_length # Shrink) =>
          \A j \in 1..nb_sec : sec_main[j] >= sec_min[j] * main_den
    /\ (CrossResolved /\ cross_length # Shrink) =>
          \A i \in 1..nb_prim : prim_cross[i] >= prim_min[i] * cross_den

\* C1 witness: a main redistribution that clamped a track with a positive
\* minimum and gave another track more than its minimum.
C1_Witness ==
    /\ MainJustResolved
    /\ \E j \in 1..nb_sec : j \notin not_clamped /\ sec_min[j] > 0 /\ SecFactor(j) > 0
    /\ \E j \in 1..nb_sec : sec_main[j] > sec_min[j] * main_den

\* ------------------------------------------------------------------ C2

\* C2: when the main sizing mode is not Shrink, the final main sizes of the
\* tracks plus the total main spacing do not exceed the available main space
\* (stated for the grids whose spacing alone fits in that space).
C2_SpaceConservation ==
    (MainResolved /\ main_length # Shrink /\ main_max >= 0) =>
        SumTo(sec_main, nb_sec) + main_total_spacing * main_den <= max_main * main_den

\* ------------------------------------------------------------------ C3

\* C3: when the main sizing mode is not Shrink, there are tracks, every track
\* has a non-zero fill factor and none is clamped, the final main sizes plus
\* the total main spacing equal the available main space, each track getting
\* factor / total factor of the space left after spacing.
C3_ExactFill ==
    (/\ MainJustResolved
     /\ nb_sec >= 1
     /\ \A j \in 1..nb_sec : SecFactor(j) > 0
     /\ not_clamped = 1..nb_sec) =>
        /\ SumTo(sec_main, nb_sec) + main_total_spacing * main_den = max_main * main_den
        /\ \A j \in 1..nb_sec :
              RatEq(sec_main[j], main_den, SecFactor(j) * main_max, SecFactorTotal)

\* ------------------------------------------------------------------ C4

\* two rectangles share no point (edges excluded)
Disjoint(r, s) ==
    \/ r.x + r.w <= s.x
    \/ s.x + s.w <= r.x
    \/ r.y + r.h <= s.y
    \/ s.y + s.h <= r.y

\* C4: after layout, the cells of any two distinct elements do not intersect,
\* nor do the child nodes placed in them.
C4_NoOverlap ==
    Done => \A ab \in Cells : \A cd \in Cells :
                ab # cd => /\ Disjoint(nodes[ab].cell, nodes[cd].cell)
                           /\ Disjoint(nodes[ab], nodes[cd])

\* C4 witness: a laid-out jagged grid of three elements, each cell and each
\* node with a positive width and height.
C4_Witness ==
    /\ Done
    /\ Cardinality(Cells) = 3
    /\ \A ab \in Cells : /\ nodes[ab].cell.w > 0 /\ nodes[ab].cell.h > 0
                         /\ nodes[ab].w > 0 /\ nodes[ab].h > 0

\* ------------------------------------------------------------------ C5

\* C5: after layout every cell lies within the padded content box: its right
\* edge is at most padding.left plus the available width, its bottom edge at
\* most padding.top plus the available height.  Stated for the layouts whose
\* budgets are not negative and whose fill-factor sums did not wrap.
C5_WithinContentBox ==
    (Done /\ ~wrapped /\ main_max >= 0 /\ cross_max >= 0) =>
        \A ab \in Cells :
            /\ nodes[ab].cell.x + nodes[ab].cell.w <= (grid.padding.left + ShrunkMax.w) * PosW
            /\ nodes[ab].cell.y + nodes[ab].cell.h <= (grid.padding.top + ShrunkMax.h) * PosH

\* ------------------------------------------------------------------ C6

\* The redistribution loop with its hash set iterated in ascending order: one
\* visit, on a record of the loop's locals (min the tracks' intrinsic sizes).
AscVisit(st, min, k) ==
    LET clamp == ShareLess(st.factor[k], st.fill_sum, st.space, min[k])
    IN  [factor |-> IF clamp THEN [st.factor EXCEPT ![k] = 0] ELSE st.factor,
         fill_sum |-> FillSumAfter(clamp, st.fill_sum, st.factor[k]),
         space |-> IF clamp THEN F32(st.space - min[k]) ELSE st.space,
         not_clamped |-> NotClampedAfter(clamp, st.not_clamped, k),
         finished |-> IF clamp THEN FALSE ELSE st.finished]

RECURSIVE AscPass(_, _, _)
\* the rest of a pass, todo being the indexes still to visit
AscPass(st, min, todo) ==
    IF todo = {} THEN st
    ELSE AscPass(AscVisit(st, min, SetMin(todo)), min, todo \ {SetMin(todo)})

RECURSIVE AscLoop(_, _)
\* while !finished && fill_sum > 0
AscLoop(st, min) ==
    IF st.finished \/ st.fill_sum = 0 THEN st
    ELSE AscLoop(AscPass([st EXCEPT !.finished = TRUE], min, st.not_clamped), min)

\* The final sizes of n tracks of the given factors and intrinsic sizes, when
\* the hash set is iterated in ascending order: numerators and denominator.
AscTracks(factor, min, n, space) ==
    LET st == AscLoop([factor |-> factor, fill_sum |-> SumTo(factor, n) % U16,
                       space |-> space, not_clamped |-> 1..n, finished |-> FALSE], min)
    IN  [num |-> [k \in 1..n |-> FinalSize(st.factor[k], st.fill_sum, st.space, min[k])],
         den |-> Den(st.fill_sum)]

\* C6: the track sizes do not depend on the order in which the hash set yields
\* the unclamped tracks: whatever the order, both redistributions end with
\* the sizes that the ascending order gives for the same grid and limits.  (The
\* phases after them are functions of the track sizes.)
C6_OrderIndependent ==
    /\ MainJustResolved =>
          LET r == AscTracks([j \in 1..nb_sec |-> SecFactor(j)], sec_min, nb_sec, main_max)
          IN  \A j \in 1..nb_sec : RatEq(sec_main[j], main_den, r.num[j], r.den)
    /\ CrossJustResolved =>
          LET r == AscTracks([i \in 1..nb_prim |-> PrimFactor(i)], prim_min, nb_prim,
                             cross_max)
          IN  \A i \in 1..nb_prim : RatEq(prim_cross[i], cross_den, r.num[i], r.den)

\* ------------------------------------------------------------------ C7

\* C7: each redistribution loop makes at most as many passes as there are
\* tracks, and a pass that asks for another one has removed a track from the
\* unclamped set.
C7_LoopBounded ==
    /\ passes.main <= nb_sec
    /\ passes.cross <= nb_prim
    /\ (pc \in {"main_loop", "cross_loop"} /\ ~finished /\ pass_start # {}) =>
          (not_clamped \subseteq pass_start /\ not_clamped # pass_start)
    /\ pc \in {"main_pass", "cross_pass"} =>
          (indexes # {} /\ indexes \subseteq pass_start)

\* C7 witness: a redistribution over two tracks that needed both passes.
C7_Witness ==
    /\ pc = "cross_measure"
    /\ passes.main = 2
    /\ nb_sec = 2

\* ------------------------------------------------------------------ C8

\* C8: the u16 arithmetic on the fill factors never overflows: layout neither
\* panics nor goes on with a wrapped total.
C8_NoFactorOverflow == pc # "panic" /\ ~wrapped

\* ------------------------------------------------------------------ C9

\* C9: the budgets layout offers to the children and redistributes are never
\* negative, and neither is any track or the reported size.
C9_BudgetsClampedToZero ==
    /\ pc # "start" => (main_max >= 0 /\ cross_max >= 0)
    /\ pc \in {"main_loop", "main_pass"} => (passes.main = 0 => main >= 0)
    /\ MainResolved => \A j \in 1..nb_sec : sec_main[j] >= 0
    /\ CrossResolved => \A i \in 1..nb_prim : prim_cross[i] >= 0
    /\ Done => (out.size.w >= 0 /\ out.size.h >= 0)

\* ------------------------------------------------------------------ C10

\* C10: an empty grid (no rows, or rows that are all empty) under Shrink sizing
\* has a content extent of 0 on both axes and resolves to the padding alone.
C10_EmptyGridPaddingOnly ==
    (Done /\ Cells = {} /\ grid.width = Shrink /\ grid.height = Shrink) =>
        /\ out.content.w = 0
        /\ out.content.h = 0
        /\ out.size.w = Min(PadH, limits.max_w) * PosW
        /\ out.size.h = Min(PadV, limits.max_h) * PosH

\* ------------------------------------------------------------------ case grids

\* The children of the case grids: one that shrinks around 4 x 3, one that
\* fills both ways.
CaseKinds ==
    { [width |-> Shrink,         height |-> Shrink,         iw |-> 4, ih |-> 3],
      [width |-> FillPortion(2), height |-> FillPortion(2), iw |-> 0, ih |-> 0] }

\* The lengths of the rows of the jagged grids.
JaggedLens == <<3, 2, 4>>

\* Grid::push_row three times: rows of 3, 2 and 4 children.
JaggedRows ==
    { <<r1, r2, r3>> : r1 \in [1..JaggedLens[1] -> CaseKinds],
                       r2 \in [1..JaggedLens[2] -> CaseKinds],
                       r3 \in [1..JaggedLens[3] -> CaseKinds] }

\* The jagged grids, in every sizing mode and under both axes.
JaggedGrids ==
    { [rows |-> r, width |-> m[1], height |-> m[2],
       padding |-> [top |-> 1, right |-> 0, bottom |-> 0, left |-> 1],
       horizontal_align |-> "Left", vertical_align |-> "Center",
       column_spacing |-> 2, row_spacing |-> 1, axis |-> ax] :
        r \in JaggedRows, m \in Modes, ax \in {"Horizontal", "Vertical"} }

\* Limits in which four columns and three rows of shrinking children fit.
JaggedLimits == [max_w |-> 4 * MaxLimit, max_h |-> 2 * MaxLimit]

\* The children of the scene: two that shrink around 50 x 50 and 260 x 260, one
\* that fills both ways with factor 1, and one that fills with factor 1 around
\* a content of 50 x 50.
Small == [width |-> Shrink, height |-> Shrink, iw |-> 50, ih |-> 50]
Large == [width |-> Shrink, height |-> Shrink, iw |-> 260, ih |-> 260]
FillBoth == [width |-> FillPortion(1), height |-> FillPortion(1), iw |-> 0, ih |-> 0]
SmallFill == [width |-> FillPortion(1), height |-> FillPortion(1), iw |-> 50, ih |-> 50]

\* The cells of main track 0 of the scene, in order: the two shrinking
\* children either way round, alone (the 2 x 2 grid, track 0 has fill factor 0)
\* or followed by a filling child, which gives the track a fill factor of its
\* own; and the 2 x 2 grid whose 50 pixel cell fills, so that both tracks have
\* fill factor 1.
SceneTracks ==
    { <<Small, Large>>, <<Large, Small>>,
      <<Small, Large, FillBoth>>, <<Large, Small, FillBoth>>,
      <<SmallFill, Large>>, <<Large, SmallFill>> }

\* The rows of the grid whose main track 0 holds the cells c and whose main
\* track 1 holds filling children: the main tracks are the columns under
\* Axis::Horizontal and the rows under Axis::Vertical.
SceneRows(c, ax) ==
    IF ax = "Horizontal" THEN [a \in 1..Len(c) |-> <<c[a], FillBoth>>]
    ELSE << c, [b \in 1..Len(c) |-> FillBoth] >>

\* The scene: the main length is Fill or Fixed, and the limits leave 300 pixels
\* of main space after the padding (1) and the main spacing (sp).
SceneInputs ==
    { << [rows |-> SceneRows(c, ax),
          width |-> pack(ax, IF fixed THEN Fixed(301 + sp) ELSE FillPortion(1), cl)[1],
          height |-> pack(ax, IF fixed THEN Fixed(301 + sp) ELSE FillPortion(1), cl)[2],
          padding |-> [top |-> 1, right |-> 0, bottom |-> 0, left |-> 1],
          horizontal_align |-> "Left", vertical_align |-> "Center",
          column_spacing |-> pack(ax, sp, 1)[1], row_spacing |-> pack(ax, sp, 1)[2],
          axis |-> ax],
         [max_w |-> pack(ax, IF fixed THEN 500 ELSE 301 + sp, 400)[1],
          max_h |-> pack(ax, IF fixed THEN 500 ELSE 301 + sp, 400)[2]] >> :
        c \in SceneTracks, ax \in {"Horizontal", "Vertical"}, sp \in {0, 2},
        fixed \in BOOLEAN, cl \in {Shrink, FillPortion(1)} }

\* Two rows of one or two of the case children, in limits of 6 x 5 that the
\* children and the spacing do not all fit in.
StackInputs ==
    { << [rows |-> r, width |-> m[1], height |-> m[2],
          padding |-> [top |-> 0, right |-> 0, bottom |-> 0, left |-> 0],
          horizontal_align |-> "Left", vertical_align |-> "Top",
          column_spacing |-> 1, row_spacing |-> 1, axis |-> ax],
         [max_w |-> MaxLimit, max_h |-> MaxLimit - 1] >> :
        r \in UNION { [1..2 -> [1..n -> CaseKinds]] : n \in 1..2 },
        m \in Modes, ax \in {"Horizontal", "Vertical"} }

CaseInputs == (JaggedGrids \X {JaggedLimits}) \cup SceneInputs \cup StackInputs

InitCases ==
    /\ \E gl \in CaseInputs : grid = gl[1] /\ limits = gl[2]
    /\ InitLocals
    /\ NoBuilder
    /\ NoInput
    /\ NoContent

\* ------------------------------------------------------------------ traversals

\* get_elements().zip(tree.children).zip(layout.children()): the triples a
\* traversal hands to the children, layout the node that Grid::layout returned
Triples == Zip(Zip(get_elements, children), out.children)

\* A traversal by the name `by` that visits the triples t.
Traverse(by, t) ==
    /\ pc = "done"
    /\ visited' = [by |-> by, triples |-> t]
    /\ UNCHANGED <<grid, limits, prev, pc, elts_trees, calls, loop, mainv, crossv,
                   prim_cross_factor, nodes, out, wrapped, built, parsed_input, content, handle, hist>>

\* Widget::draw: nothing is drawn when the bounds do not meet the viewport
draw == \E meets \in BOOLEAN : Traverse("draw", IF meets THEN Triples ELSE <<>>)

\* Widget::operate
operate == Traverse("operate", Triples)

\* Widget::on_event
on_event == Traverse("on_event", Triples)

\* Widget::mouse_interaction
mouse_interaction == Traverse("mouse_interaction", Triples)

\* Widget::overlay
overlay == Traverse("overlay", Triples)

\* The column widths and row heights the tracks stand for, as
\* <<widths, heights>>, over <<WDen, HDen>>.
Tracks == pack(axis, sec_main, prim_cross)

\* Grid::main_axis followed by a new layout: the grid is rebuilt with the main
\* axis ax and laid out again in the same limits; prev keeps the result of the
\* layout that has just ended.
main_axis ==
    /\ pc = "done"
    /\ prev = <<>>
    /\ \E ax \in {"Horizontal", "Vertical"} : grid' = [grid EXCEPT !.axis = ax]
    /\ prev' = [axis |-> axis, widths |-> Tracks[1], heights |-> Tracks[2],
                wden |-> WDen, hden |-> HDen, nodes |-> nodes, out |-> out]
    /\ pc' = "start"
    /\ main' = 0
    /\ sec_main_factor' = <<>>
    /\ prim_cross_factor' = <<>>
    /\ sec_main' = <<>>
    /\ main_den' = 1
    /\ cross' = 0
    /\ prim_cross' = <<>>
    /\ cross_den' = 1
    /\ not_clamped' = {}
    /\ indexes' = {}
    /\ fill_sum' = 0
    /\ finished' = FALSE
    /\ passes' = [main |-> 0, cross |-> 0]
    /\ pass_start' = {}
    /\ sec_min' = <<>>
    /\ prim_min' = <<>>
    /\ nodes' = <<>>
    /\ out' = <<>>
    /\ elts_trees' = <<>>
    /\ calls' = <<>>
    /\ UNCHANGED <<limits, visited, wrapped, built, parsed_input, content, handle, hist>>

\* Layout followed by the traversals of the laid-out grid.
NextCases ==
    \/ Next
    \/ draw
    \/ operate
    \/ on_event
    \/ mouse_interaction
    \/ overlay

\* Grid::layout on the case grids, then the traversals of the result.
SpecCases == InitCases /\ [][NextCases]_vars

\* Layout followed by a new layout under another main axis.
NextAxes ==
    \/ Next
    \/ main_axis

\* The scenes and the two-row grids.
InitAxes ==
    /\ \E gl \in SceneInputs \cup StackInputs : grid = gl[1] /\ limits = gl[2]
    /\ InitLocals
    /\ NoBuilder
    /\ NoInput
    /\ NoContent

\* Grid::layout on the scenes and the two-row grids, before and after
\* Grid::main_axis.
SpecAxes == InitAxes /\ [][NextAxes]_vars

\* ------------------------------------------------------------------ C11

\* the grid has rows of lengths 3, 2 and 4
IsJagged == Len(rows) = 3 /\ \A a \in 1..3 : Len(rows[a]) = JaggedLens[a]

\* C11: a grid with rows of lengths [3, 2, 4] is laid out with 4 columns and
\* exactly 9 child rectangles, none for an absent cell; the cells of a column
\* have the same x offset and width in every row that has one; and the 4th
\* column is as wide as its one element needs: at least as wide as that
\* element's node, and exactly as wide when the grid's width is Shrink.
C11_JaggedRows ==
    (Done /\ IsJagged) =>
        /\ nb_columns = 4
        /\ DOMAIN nodes = Cells
        /\ Cardinality(DOMAIN nodes) = 9
        /\ \A ab \in Cells : \A cd \in Cells :
              ab[2] = cd[2] => /\ nodes[ab].cell.x = nodes[cd].cell.x
                               /\ nodes[ab].cell.w = nodes[cd].cell.w
        /\ nodes[<<3, 4>>].cell.w >= nodes[<<3, 4>>].w
        /\ grid.width = Shrink => nodes[<<3, 4>>].cell.w = nodes[<<3, 4>>].w

\* C11 witness: a laid-out jagged grid whose 4th column has a width of its
\* own, narrower than the 3rd column, which the short rows reach.
C11_Witness ==
    /\ Done
    /\ IsJagged
    /\ nodes[<<3, 4>>].cell.w > 0
    /\ nodes[<<1, 3>>].cell.w > nodes[<<3, 4>>].cell.w
    /\ nodes[<<2, 2>>].cell.w > 0

\* ------------------------------------------------------------------ C12

\* the grid is one of the scene
IsScene == \E c \in SceneTracks : rows = SceneRows(c, axis)

\* C12: in the scene (non-Shrink main length, 300 pixels of main space after
\* spacing, main track 0 holding cells of intrinsic main sizes 50 and 260, main
\* track 1 filling with factor 1) main track 0 resolves to 260 and main track 1
\* to the remaining 40.
C12_Scene ==
    (MainResolved /\ IsScene) =>
        /\ main_length # Shrink
        /\ main_max = 300
        /\ nb_sec = 2
        /\ RatEq(sec_main[1], main_den, 260, 1)
        /\ RatEq(sec_main[2], main_den, 40, 1)

\* C12 witness: the redistribution of the 2 x 2 scene whose two tracks both
\* have fill factor 1 has ended after clamping track 0 and handing the rest to
\* track 1.
C12_Witness ==
    /\ MainJustResolved
    /\ IsScene
    /\ Cardinality(Cells) = 4
    /\ SecFactor(1) = 1
    /\ SecFactor(2) = 1
    /\ not_clamped = {2}
    /\ sec_min = <<260, 0>>
    /\ main = 40

\* ------------------------------------------------------------------ C13

\* the place of element b of row a in row-major order
RowMajor(a, b) == SumTo([r \in 1..Len(rows) |-> Len(rows[r])], a - 1) + b

\* C13: the cell-index mapping is the same in every traversal.  Layout pairs
\* every element with the tree of its row-major place, for every element of
\* every row (no tree is skipped or lost at the end of a short row); the node
\* returned has one child per element, in row-major order; and every triple a
\* traversal (draw, operate, on_event, mouse_interaction, overlay) visits is
\* element k, tree k and node k of the same cell, the tree being the one layout
\* used for that element.
C13_SameMapping ==
    /\ pc # "start" =>
          /\ Len(elts_trees) = Len(rows)
          /\ \A a \in 1..Len(rows) :
                /\ Len(elts_trees[a]) = Len(rows[a])
                /\ \A b \in 1..Len(rows[a]) :
                      elts_trees[a][b] = <<<<a, b>>, RowMajor(a, b)>>
    /\ Done =>
          /\ Len(out.children) = Cardinality(Cells)
          /\ \A ab \in Cells : out.children[RowMajor(ab[1], ab[2])] = ab
    /\ (Done /\ visited # <<>>) =>
          /\ Len(visited.triples) \in {0, Cardinality(Cells)}
          /\ \A k \in 1..Len(visited.triples) :
                LET elt == visited.triples[k][1][1]
                    tree == visited.triples[k][1][2]
                    node == visited.triples[k][2]
                IN  /\ RowMajor(elt[1], elt[2]) = k
                    /\ tree = k
                    /\ node = elt
                    /\ elts_trees[elt[1]][elt[2]] = <<elt, tree>>

\* C13 witness: the jagged grid (rows of 3, 2 and 4) has been laid out and
\* on_event has visited its nine children; the first cell of the last row is
\* the sixth.
C13_Witness ==
    /\ Done
    /\ IsJagged
    /\ visited # <<>>
    /\ visited.by = "on_event"
    /\ Len(visited.triples) = 9
    /\ visited.triples[6] = << << <<3, 1>>, 6 >>, <<3, 1>> >>

\* ------------------------------------------------------------------ C14

\* the numerators s over the denominator sd and t over td are the same sizes
SameSizes(s, sd, t, td) ==
    /\ Len(s) = Len(t)
    /\ \A k \in 1..Len(s) : RatEq(s[k], sd, t[k], td)

\* the rectangles r (over 2 * wd, 2 * hd) and q (over PosW, PosH) are the same
SameRect(r, wd, hd, q) ==
    /\ RatEq(r.x, 2 * wd, q.x, PosW)
    /\ RatEq(r.w, 2 * wd, q.w, PosW)
    /\ RatEq(r.y, 2 * hd, q.y, PosH)
    /\ RatEq(r.h, 2 * hd, q.h, PosH)

\* C14: the axis only changes which dimension is resolved first.  A grid laid
\* out under one main axis and again, same rows, spacing, padding, sizing modes
\* and limits, under the other has the same column widths, the same row
\* heights and the same cell rectangles both times.
C14_AxisIndependent ==
    (Done /\ prev # <<>> /\ prev.axis # axis) =>
        /\ SameSizes(prev.widths, prev.wden, Tracks[1], WDen)
        /\ SameSizes(prev.heights, prev.hden, Tracks[2], HDen)
        /\ \A ab \in Cells : SameRect(prev.nodes[ab].cell, prev.wden, prev.hden, nodes[ab].cell)

\* ------------------------------------------------------------------ Content
\* (src/src/parsed_input.rs)
\*
\* Content<T, E> is generic.  It is checked for T an unsigned integer type of
\* values 0..MaxValue that is printed and parsed as Rust prints and parses its
\* integers, E the error of that parse: the examples use Content<u16,
\* ParseIntError> and Content<i8, ParseIntError>.  A string is a sequence of
\* characters.

\* the largest value of T
MaxValue == 10

\* the longest string typed into the input
MaxLen == 2

Values == 0..MaxValue

Digits == <<"0", "1", "2", "3", "4", "5", "6", "7", "8", "9">>

\* the characters typed, and the strings typed or pasted
InputChars == {"0", "1", "+", "x"}
InputStrings == UNION { [1..n -> InputChars] : n \in 0..MaxLen }

\* Option::None
None == "None"

\* Result::Ok and Result::Err
Ok(v) == [ok |-> TRUE, val |-> v]
Err(e) == [ok |-> FALSE, err |-> e]

\* char::to_digit(10)
IsDigit(c) == \E d \in 1..10 : Digits[d] = c
to_digit(c) == (CHOOSE d \in 1..10 : Digits[d] = c) - 1

RECURSIVE to_string(_)
\* T::to_string: the decimal digits of v, no sign, no leading zero
to_string(v) ==
    IF v < 10 THEN <<Digits[v + 1]>>
    ELSE Append(to_string(v \div 10), Digits[(v % 10) + 1])

RECURSIVE from_digits(_, _, _)
\* the digit loop of T::from_str on s from place k, result the value so far:
\* the character is checked before the product and the sum are
from_digits(s, k, result) ==
    IF k > Len(s) THEN Ok(result)
    ELSE IF ~IsDigit(s[k]) THEN Err("InvalidDigit")
    ELSE IF result * 10 > MaxValue THEN Err("PosOverflow")
    ELSE IF result * 10 + to_digit(s[k]) > MaxValue THEN Err("PosOverflow")
    ELSE from_digits(s, k + 1, result * 10 + to_digit(s[k]))

\* str::parse::<T>(): an optional "+", then digits
parse(s) ==
    IF s = <<>> THEN Err("Empty")
    ELSE IF s = <<"+">> \/ s = <<"-">> THEN Err("InvalidDigit")
    ELSE IF s[1] = "+" THEN from_digits(s, 2, 0)
    ELSE from_digits(s, 1, 0)

\* A Content::new that starts from an empty string.
NewEmptyString(value) == [value |-> value, string |-> <<>>, error |-> None]

\* Content::new
new(value) == [value |-> value, string |-> to_string(value), error |-> None]

\* Content::is_valid
is_valid(c) == c.error = None

\* Content::get_error
get_error(c) == c.error

\* Deref for Content
deref(c) == c.value

\* Parsed::from_string
from_string(str) == [string |-> str, parsed |-> parse(str)]

\* Parsed::from_value
from_value(value) == [string |-> to_string(value), parsed |-> Ok(value)]

\* An update that falls back to T::default() when the parse failed.
UpdateResetsValue(c, parsed) ==
    [string |-> parsed.string,
     value |-> IF parsed.parsed.ok THEN parsed.parsed.val ELSE 0,
     error |-> IF parsed.parsed.ok THEN None ELSE parsed.parsed.err]

\* An update that never stores the parsed value.
UpdateKeepsValue(c, parsed) ==
    [string |-> parsed.string,
     value |-> c.value,
     error |-> IF parsed.parsed.ok THEN None ELSE parsed.parsed.err]

\* An update that leaves the error alone when the parse succeeded.
UpdateKeepsError(c, parsed) ==
    [string |-> parsed.string,
     value |-> IF parsed.parsed.ok THEN parsed.parsed.val ELSE c.value,
     error |-> IF parsed.parsed.ok THEN c.error ELSE parsed.parsed.err]

\* Content::update
update(c, parsed) ==
    [string |-> parsed.string,
     value |-> IF parsed.parsed.ok THEN parsed.parsed.val ELSE c.value,
     error |-> IF parsed.parsed.ok THEN None ELSE parsed.parsed.err]

\* DerefMut for BorrowMut, followed by an assignment of v
deref_mut(c, v) == [c EXCEPT !.value = v]

\* A drop that writes the string and leaves the error.
DropKeepsError(c) == [c EXCEPT !.string = to_string(c.value)]

\* A drop that clears the error and leaves the string.
DropKeepsString(c) == [c EXCEPT !.error = None]

\* Drop for BorrowMut
drop(c) == [c EXCEPT !.string = to_string(c.value), !.error = None]

\* The variables of the grid and of the widgets, which the operations on a
\* Content leave alone.
gridvars ==
    <<grid, limits, pc, main, sec_main_factor, prim_cross_factor, sec_main,
      main_den, cross, prim_cross, cross_den, not_clamped, indexes, fill_sum,
      finished, passes, pass_start, sec_min, prim_min, nodes, out, wrapped,
      elts_trees, visited, prev, calls, built, parsed_input>>

\* A Content built by Content::new (Default builds Content::new(T::default())),
\* next to an empty grid that is not laid out.
InitContent ==
    /\ grid = [rows |-> <<>>, width |-> Shrink, height |-> Shrink,
               padding |-> [top |-> 0, right |-> 0, bottom |-> 0, left |-> 0],
               horizontal_align |-> "Left", vertical_align |-> "Top",
               column_spacing |-> 0, row_spacing |-> 0, axis |-> "Horizontal"]
    /\ limits = [max_w |-> 0, max_h |-> 0]
    /\ InitLocals
    /\ NoBuilder
    /\ NoInput
    /\ \E v \in Values :
          /\ content = new(v)
          /\ hist = [op |-> "new", arg |-> v, good |-> v, before |-> <<>>,
                     assigned |-> FALSE, v2 |-> v, leaked |-> FALSE]
    /\ handle = "none"

\* content.update(parsed): hist keeps the event and the content it met; a
\* successful parse makes its value the last good one.
Update(parsed) ==
    /\ handle = "none"
    /\ content' = update(content, parsed)
    /\ hist' = [hist EXCEPT !.op = "update", !.arg = parsed, !.before = content,
                            !.good = IF parsed.parsed.ok THEN parsed.parsed.val ELSE @]
    /\ UNCHANGED <<handle, gridvars>>

\* ParsedInput hands on_input and on_paste a Parsed::from_string of the text.
UpdateFromString == \E str \in InputStrings : Update(from_string(str))

\* The application updates the content with a Parsed::from_value.
UpdateFromValue == \E v \in Values : Update(from_value(v))

\* content.borrow_mut(): the scope of the handle opens.
BorrowMutOpen ==
    /\ handle = "none"
    /\ handle' = "open"
    /\ hist' = [hist EXCEPT !.op = "borrow_mut", !.arg = <<>>, !.before = content,
                            !.assigned = FALSE]
    /\ UNCHANGED <<content, gridvars>>

\* *handle = v inside the scope.
BorrowMutAssign ==
    /\ handle = "open"
    /\ \E v \in Values :
          /\ content' = deref_mut(content, v)
          /\ hist' = [hist EXCEPT !.op = "deref_mut", !.arg = v, !.assigned = TRUE,
                                  !.v2 = v]
    /\ UNCHANGED <<handle, gridvars>>

\* The handle is dropped: at the end of the scope, or while a panic raised in
\* the scope unwinds.  The mutation is complete and its value the last good one.
BorrowMutDrop ==
    /\ handle = "open"
    /\ \E path \in {"return", "unwind"} :
          hist' = [hist EXCEPT !.op = "drop", !.arg = path, !.good = content.value]
    /\ content' = drop(content)
    /\ handle' = "none"
    /\ UNCHANGED gridvars

\* std::mem::forget(handle): the scope ends and Drop never runs.
BorrowMutForget ==
    /\ handle = "open"
    /\ handle' = "none"
    /\ hist' = [hist EXCEPT !.op = "forget", !.arg = <<>>, !.leaked = TRUE]
    /\ UNCHANGED <<content, gridvars>>

NextContent ==
    \/ UpdateFromString
    \/ UpdateFromValue
    \/ BorrowMutOpen
    \/ BorrowMutAssign
    \/ BorrowMutDrop
    \/ BorrowMutForget

\* A Content from its construction on.
SpecContent == InitContent /\ [][NextContent]_vars

\* the content can be read and no handle of it was leaked
Settled == handle = "none" /\ ~hist.leaked

\* ------------------------------------------------------------------ C15

\* the assumption on T: value.to_string().parse() == Ok(value)
RoundTrip == \A v \in Values : parse(to_string(v)) = Ok(v)

\* C15: in every state of a Content reached through new, update and completed
\* scoped mutations, and T's round trip assumed, is_valid() is true exactly when
\* parsing the current string yields Ok of the stored value, and the stored
\* error is Some exactly when the current string fails to parse.
C15_ValidIffParses ==
    (Settled /\ RoundTrip) =>
        /\ is_valid(content) <=> (parse(content.string) = Ok(deref(content)))
        /\ (get_error(content) # None) <=> ~parse(content.string).ok

\* C15 witness: a valid content whose string is not the printed value ("+1",
\* "01"), reached by an update that met an invalid content.
C15_Witness ==
    /\ Settled
    /\ hist.op = "update"
    /\ ~is_valid(hist.before)
    /\ is_valid(content)
    /\ content.string # to_string(deref(content))

\* ------------------------------------------------------------------ C16

\* C16: after an update whose parse failed, is_valid() is false, get_error()
\* holds the event's error, the string is the event's raw text and the value is
\* the value held before the update.
C16_FailedUpdate ==
    (hist.op = "update" /\ ~hist.arg.parsed.ok) =>
        /\ ~is_valid(content)
        /\ get_error(content) = hist.arg.parsed.err
        /\ content.string = hist.arg.string
        /\ deref(content) = deref(hist.before)

\* C16 witness: a content that was valid with the value MaxValue has been
\* updated with a text that overflows T.
C16_Witness ==
    /\ hist.op = "update"
    /\ ~hist.arg.parsed.ok
    /\ hist.arg.parsed.err = "PosOverflow"
    /\ is_valid(hist.before)
    /\ deref(content) = MaxValue

\* ------------------------------------------------------------------ C17

\* C17: when the handle of a scoped mutation is released after the value was
\* set to v2, at the end of the scope or during an unwind, the string is
\* v2.to_string(), the error is cleared and is_valid() is true, whether the
\* content was valid or not before the scope.
C17_DropRestringifies ==
    (hist.op = "drop" /\ hist.assigned) =>
        /\ content.string = to_string(hist.v2)
        /\ get_error(content) = None
        /\ is_valid(content)
        /\ deref(content) = hist.v2

\* C17 witness: the handle of an invalid content was dropped during an unwind
\* after the value was set to another value of two digits.
C17_Witness ==
    /\ hist.op = "drop"
    /\ hist.arg = "unwind"
    /\ hist.assigned
    /\ ~is_valid(hist.before)
    /\ hist.v2 # deref(hist.before)
    /\ Len(content.string) = 2

\* ------------------------------------------------------------------ C18

\* C18: Content::new(v) has the string v.to_string(), no error, is valid and
\* reads as v, for every v.
C18_New ==
    (hist.op = "new") =>
        /\ content.string = to_string(hist.arg)
        /\ get_error(content) = None
        /\ is_valid(content)
        /\ deref(content) = hist.arg

\* C18 witness: Content::new(MaxValue), whose string has two digits.
C18_Witness ==
    /\ hist.op = "new"
    /\ hist.arg = MaxValue
    /\ Len(content.string) = 2
    /\ handle = "none"

\* ------------------------------------------------------------------ C19

\* C19: after any sequence of updates and scoped mutations, the value read is
\* the last good one: that of the most recent successful parse or completed
\* scoped mutation, the initial value if there was none.
C19_LastKnownGood == Settled => deref(content) = hist.good

\* C19 witness: two failed updates in a row on a content whose value, MaxValue,
\* no typed text of one character stands for.
C19_Witness ==
    /\ Settled
    /\ hist.op = "update"
    /\ ~is_valid(content)
    /\ ~is_valid(hist.before)
    /\ hist.before.string # content.string
    /\ deref(content) = MaxValue

\* ------------------------------------------------------------------ C20

\* C20: Content is a machine of two states, valid and invalid, that rejects no
\* event: an update is possible in both, it always overwrites the string with
\* the event's text, and leaves the content valid with the parsed value and no
\* error when the event's parse succeeded, invalid otherwise.
C20_TwoStates ==
    /\ (handle = "none" /\ hist # <<>>) =>
          /\ ENABLED UpdateFromString
          /\ ENABLED UpdateFromValue
    /\ (hist # <<>> /\ hist.op = "update") =>
          /\ content.string = hist.arg.string
          /\ IF hist.arg.parsed.ok
             THEN /\ is_valid(content)
                  /\ deref(content) = hist.arg.parsed.val
                  /\ get_error(content) = None
             ELSE ~is_valid(content)

\* C20 witness: an update whose parse succeeded has made an invalid content
\* valid and replaced its value.
C20_Witness ==
    /\ hist # <<>>
    /\ hist.op = "update"
    /\ ~is_valid(hist.before)
    /\ hist.arg.parsed.ok
    /\ is_valid(content)
    /\ deref(content) # deref(hist.before)

\* ------------------------------------------------------------------ C22

\* the cross measurement has just ended: prim_cross holds the measured sizes
CrossMeasured == pc = "cross_sum"

\* C22: the cross-axis pass measures against the usable cross space (the cross
\* extent less the padding and the total cross spacing): what is left of the
\* budget after the measurement is the usable cross space less the measured
\* sizes, and the measured sizes plus the total cross spacing do not exceed the
\* available cross extent.  Stated for the grids whose spacing fits.
C22_CrossBudget ==
    (CrossMeasured /\ cross_max >= 0) =>
        /\ cross = cross_max - SumTo(prim_cross, nb_prim)
        /\ SumTo(prim_cross, nb_prim) + cross_total_spacing <= max_cross

\* ------------------------------------------------------------------ C23

\* the first pass has just ended
FirstPassed == pc = "main_sum"

\* the children of secondary track j, by primary index, and those of them with
\* main fill factor 0
TrackElts(j) == { i \in 1..nb_prim : HasElt(i, j) }
TrackFixed(j) == { i \in TrackElts(j) : MainFactor(EltAt(i, j)) = 0 }

\* C23: the first pass consumes the main budget greedily in secondary order.
\* The zero-factor children of track j are all measured against the usable main
\* space less the intrinsic sizes of the tracks before j, and against the whole
\* usable cross space; the track's intrinsic size is the largest main extent
\* they return, its fill factor the largest main fill factor of its children,
\* and the budget left is the usable main space less all the intrinsic sizes
\* (whole pixels that f32 holds).
C23_GreedyFirstPass ==
    FirstPassed =>
        /\ \A j \in 1..nb_sec :
              LET limit == main_max - SumTo(sec_main, j - 1)
                  extents == { AxisMain(axis,
                                        ChildLayout(EltAt(i, j),
                                                    pack(axis, limit, cross_max)[1], 1,
                                                    pack(axis, limit, cross_max)[2], 1)) :
                               i \in TrackFixed(j) }
              IN  /\ sec_main[j] = SetMax({0} \cup extents)
                  /\ \A i \in TrackElts(j) : sec_main_factor[j] >= MainFactor(EltAt(i, j))
                  /\ sec_main_factor[j] = 0 \/
                       \E i \in TrackElts(j) : sec_main_factor[j] = MainFactor(EltAt(i, j))
        /\ Abs(main_max) < 2^24 => main = main_max - SumTo(sec_main, nb_sec)

\* C23 witness: two tracks of shrinking children 4 wide in a usable main space
\* of 5; the first takes 4 and the second is measured against the 1 left.
C23_Witness ==
    /\ FirstPassed
    /\ nb_sec = 2
    /\ main_max = 5
    /\ sec_main = <<4, 1>>
    /\ main = 0

\* ------------------------------------------------------------------ C24

\* C24: when the total fill factor is zero at the redistribution of an axis
\* whose sizing mode is not Shrink, at its start or because every filling track
\* was clamped, no space is distributed: every track ends with its intrinsic
\* minimum, in whole pixels, and the rest of the space is not allocated.
C24_ZeroTotalFactor ==
    /\ (MainJustResolved /\ fill_sum = 0) =>
          /\ main_den = 1
          /\ \A j \in 1..nb_sec : sec_main[j] = sec_min[j]
    /\ (CrossJustResolved /\ fill_sum = 0) =>
          /\ cross_den = 1
          /\ \A i \in 1..nb_prim : prim_cross[i] = prim_min[i]

\* C24 witness: a main redistribution over tracks none of which fills, in a
\* space larger than the tracks: the loop is not entered and space is left.
C24_Witness ==
    /\ MainJustResolved
    /\ fill_sum = 0
    /\ passes.main = 0
    /\ nb_sec >= 1
    /\ sec_main[1] > 0
    /\ main > SumTo(sec_main, nb_sec)

\* ------------------------------------------------------------------ C25

\* the width of every column and the height of every row, over WDen and HDen:
\* the columns are the secondary tracks of a horizontal grid and the primary
\* tracks of a vertical one
ColumnWidths ==
    [c \in 1..nb_columns |-> IF axis = "Horizontal" THEN sec_main[c] ELSE prim_cross[c]]
RowHeights ==
    [r \in 1..nb_rows |-> IF axis = "Horizontal" THEN prim_cross[r] ELSE sec_main[r]]

\* a node placed in a box along one axis by an alignment (start, centre, end)
AlignedIn(alignment, at, size, boxAt, boxSize) ==
    CASE alignment \in {"Left", "Top"} -> at = boxAt
      [] alignment = "Center" -> 2 * (at - boxAt) = boxSize - size
      [] OTHER -> at + size = boxAt + boxSize

\* C25: under either axis the cell of element c of row r is the box of the
\* width of column c and the height of row r, at x = padding.left + the widths
\* of the columns before c + one column spacing per column before c, and at
\* y = padding.top + the heights of the rows before r + one row spacing per row
\* before r; the node is aligned in that box by the two alignments.  The cells
\* of a column share x and width, the cells of a row share y and height.
C25_CellBoxes ==
    Done =>
        /\ \A ab \in Cells :
              LET r == ab[1]
                  c == ab[2]
                  n == nodes[ab]
              IN  /\ n.cell.w = 2 * ColumnWidths[c]
                  /\ n.cell.h = 2 * RowHeights[r]
                  /\ n.cell.x = grid.padding.left * PosW + 2 * SumTo(ColumnWidths, c - 1)
                                  + (c - 1) * grid.column_spacing * PosW
                  /\ n.cell.y = grid.padding.top * PosH + 2 * SumTo(RowHeights, r - 1)
                                  + (r - 1) * grid.row_spacing * PosH
                  /\ AlignedIn(grid.horizontal_align, n.x, n.w, n.cell.x, n.cell.w)
                  /\ AlignedIn(grid.vertical_align, n.y, n.h, n.cell.y, n.cell.h)
        /\ \A ab \in Cells : \A cd \in Cells :
              /\ ab[2] = cd[2] => /\ nodes[ab].cell.x = nodes[cd].cell.x
                                  /\ nodes[ab].cell.w = nodes[cd].cell.w
              /\ ab[1] = cd[1] => /\ nodes[ab].cell.y = nodes[cd].cell.y
                                  /\ nodes[ab].cell.h = nodes[cd].cell.h

\* C25 witness: a laid-out vertical grid with padding and spacing whose second
\* element of the second row is smaller than its cell and not aligned at the
\* start of it.
C25_Witness ==
    /\ Done
    /\ axis = "Vertical"
    /\ <<2, 2>> \in Cells
    /\ grid.padding.left > 0
    /\ grid.column_spacing > 0
    /\ grid.row_spacing > 0
    /\ grid.horizontal_align # "Left"
    /\ nodes[<<2, 2>>].w < nodes[<<2, 2>>].cell.w
    /\ nodes[<<2, 2>>].cell.x > grid.padding.left * PosW + grid.column_spacing * PosW
    /\ nodes[<<2, 2>>].cell.y > grid.padding.top * PosH + grid.row_spacing * PosH

\* ------------------------------------------------------------------ C26

\* the cells whose child has a non-zero cross fill factor
CrossFilling ==
    { ab \in Cells : CrossFactor(EltAt(pack(axis, ab[1], ab[2])[1], pack(axis, ab[1], ab[2])[2])) # 0 }

\* the calls of a cell made by the loop `phase`
CallsIn(ab, phase) == { n \in 1..Len(calls[ab]) : calls[ab][n].phase = phase }

\* the layout of the child of cell ab against the resolved box of the cell:
\* the final width of its column and the final height of its row
InResolvedBox(ab) ==
    ChildLayout(EltAt(pack(axis, ab[1], ab[2])[1], pack(axis, ab[1], ab[2])[2]),
                ColumnWidths[ab[2]], WDen, RowHeights[ab[1]], HDen)

\* C26: a child with a non-zero cross fill factor is skipped by the cross
\* measurement (no call, the default node) and laid out exactly once after it,
\* against the final main size of its secondary track and the final cross size
\* of its primary track; the node kept is the result of that call.
C26_CrossFillingLaidOutLast ==
    \A ab \in CrossFilling :
        /\ pc \in {"cross_sum", "cross_loop", "cross_pass", "final_nodes"} =>
              /\ CallsIn(ab, "cross") = {}
              /\ CallsIn(ab, "final") = {}
              /\ nodes[ab].w = 0 /\ nodes[ab].h = 0
        /\ pc \in {"position", "done"} =>
              /\ CallsIn(ab, "cross") = {}
              /\ CallsIn(ab, "final") = {Len(calls[ab])}
              /\ calls[ab][Len(calls[ab])].node = InResolvedBox(ab)
              /\ calls[ab][Len(calls[ab])].wden = WDen
              /\ calls[ab][Len(calls[ab])].hden = HDen
        /\ pc = "position" => nodes[ab] = InResolvedBox(ab)
        /\ pc = "done" => /\ nodes[ab].w = 2 * InResolvedBox(ab).w
                          /\ nodes[ab].h = 2 * InResolvedBox(ab).h

\* C26 witness: a laid-out grid with a child filling across, measured in the
\* first pass and laid out again in its cell, where it got another size.
C26_Witness ==
    /\ Done
    /\ \E ab \in CrossFilling :
          /\ Len(calls[ab]) = 2
          /\ calls[ab][1].phase = "first"
          /\ calls[ab][2].node # calls[ab][1].node
          /\ nodes[ab].w > 0
          /\ nodes[ab].h > 0

\* ------------------------------------------------------------------ C27

\* the grid's own sizing mode along the secondary tracks and along the primary
\* ones: its width and its height, by the axis
ModeAlongMain == IF axis = "Horizontal" THEN grid.width ELSE grid.height
ModeAlongCross == IF axis = "Horizontal" THEN grid.height ELSE grid.width

\* the extents the loop `phase` measured on the children of a track: the main
\* extents of secondary track j in the first pass, the cross extents of primary
\* track i in the cross measurement
MeasuredMain(j) ==
    { AxisMain(axis, calls[pack(axis, i, j)][n].node) :
        <<i, n>> \in { x \in TrackElts(j) \X (1..2) : x[2] \in CallsIn(pack(axis, x[1], j), "first") } }
MeasuredCross(i) ==
    { AxisCross(axis, calls[pack(axis, i, j)][n].node) :
        <<j, n>> \in { x \in { s \in 1..nb_sec : HasElt(i, s) } \X (1..2) :
                        x[2] \in CallsIn(pack(axis, i, x[1]), "cross") } }

\* C27: when the grid's sizing mode on an axis is Shrink no redistribution runs
\* on that axis: the loop is never entered, and every track ends with the
\* largest extent measured from its children of fill factor 0 on that axis (0
\* when all of them fill or the track is empty), whatever the fill factors.
C27_ShrinkKeepsMeasured ==
    /\ (ModeAlongMain = Shrink /\ pc \notin {"start", "main_sum"}) =>
          /\ passes.main = 0
          /\ main_den = 1
          /\ \A j \in 1..nb_sec :
                /\ sec_main[j] = SetMax({0} \cup MeasuredMain(j))
                /\ \A i \in TrackElts(j) :
                      (CallsIn(pack(axis, i, j), "first") # {}) <=> (MainFactor(EltAt(i, j)) = 0)
    /\ (ModeAlongCross = Shrink /\ pc \in {"final_nodes", "position", "done"}) =>
          /\ passes.cross = 0
          /\ cross_den = 1
          /\ \A i \in 1..nb_prim :
                /\ prim_cross[i] = SetMax({0} \cup MeasuredCross(i))
                /\ \A j \in { s \in 1..nb_sec : HasElt(i, s) } :
                      (CallsIn(pack(axis, i, j), "cross") # {}) <=> (CrossFactor(EltAt(i, j)) = 0)

\* C27 witness: a laid-out grid shrinking along its main axis, one track of
\* which holds a filling child next to a measured one and another only filling
\* children, with room left: the first keeps the measured size, the second 0.
C27_Witness ==
    /\ Done
    /\ ModeAlongMain = Shrink
    /\ \E j \in 1..nb_sec : sec_main_factor[j] > 0 /\ sec_main[j] > 0
    /\ \E j \in 1..nb_sec : sec_main_factor[j] > 0 /\ sec_main[j] = 0
    /\ main_max > SumTo(sec_main, nb_sec)

\* ------------------------------------------------------------------ C29

\* the child of cell ab fills along the main axis: its width when the grid is
\* horizontal, its height when it is vertical
FillsAlongMain(ab) ==
    LET elt == rows[ab[1]][ab[2]]
    IN  fill_factor(IF axis = "Horizontal" THEN elt.width ELSE elt.height) # 0

\* the calls of a cell made once the main sizes of the tracks are final
CallsAfterMain(ab) == CallsIn(ab, "cross") \cup CallsIn(ab, "final")

\* the node of cell ab is the result of its call n, the denominators of the
\* two brought together (k = 1 before the positioning, 2 after it)
KeptFrom(ab, n, k) ==
    /\ RatEq(nodes[ab].w, k * WDen, calls[ab][n].node.w, calls[ab][n].wden)
    /\ RatEq(nodes[ab].h, k * HDen, calls[ab][n].node.h, calls[ab][n].hden)

\* C29: a layout makes a bounded number of layout calls on the children: every
\* present child is laid out once or twice, the first pass calling it exactly
\* when its main fill factor is zero, and exactly one call, the last, is made
\* after the main sizes of the tracks are final; the node kept is the result
\* of that call, not the default node.
C29_BoundedLayoutCalls ==
    pc \in {"position", "done"} =>
        \A ab \in Cells :
            /\ Len(calls[ab]) \in 1..2
            /\ (CallsIn(ab, "first") # {}) <=> ~FillsAlongMain(ab)
            /\ CallsIn(ab, "first") \subseteq {1}
            /\ CallsAfterMain(ab) = {Len(calls[ab])}
            /\ KeptFrom(ab, Len(calls[ab]), IF pc = "done" THEN 2 ELSE 1)

\* C29 witness: a laid-out grid with a child laid out twice and a child laid
\* out once, both kept with a width and a height.
C29_Witness ==
    /\ Done
    /\ \E ab \in Cells : \E cd \in Cells :
          /\ Len(calls[ab]) = 2
          /\ Len(calls[cd]) = 1
          /\ nodes[ab].w > 0 /\ nodes[ab].h > 0
          /\ nodes[cd].w > 0 /\ nodes[cd].h > 0

\* ------------------------------------------------------------------ builders

\* The children pushed by the builders: shrinking, filling the width, filling
\* the height.  Widget::size_hint is the child's size.
BuildKinds == { k \in Kinds : fill_factor(k.width) <= 1 /\ fill_factor(k.height) <= 1 }
BuildRows == UNION { [1..n -> BuildKinds] : n \in 0..MaxCols }

\* what width() and height() are given
BuildLengths == { Shrink, FillPortion(1), Fixed(5) }

\* Length::enclose: a Shrink length becomes the other when the other fills
enclose(self, other) ==
    IF self.k = "Shrink" /\ other.k = "FillPortion" THEN other ELSE self

RECURSIVE Enclosed(_, _, _)
\* `len` made to enclose the first n of the size hints
Enclosed(len, hints, n) ==
    IF n = 0 THEN len ELSE enclose(Enclosed(len, hints, n - 1), hints[n])

\* The width written back with what Length::enclose returned.
WidthAfterPushEnclosed(w, row) ==
    Enclosed(w, [b \in 1..Len(row) |-> row[b].width], Len(row))

\* self.width after the loop of push_row_mut: `self.width.enclose(size.width);`
\* is a statement, Length is Copy and enclose takes it by value, so what it
\* returns is dropped and the field keeps its value
WidthAfterPush(w, row) == w

\* self.height after the loop of push_row_mut, as the width
HeightAfterPush(h, row) == h

\* the grid after push_row_mut(row)
Pushed(g, row) ==
    [g EXCEPT !.rows = Append(@, row),
              !.width = WidthAfterPush(@, row),
              !.height = HeightAfterPush(@, row)]

RECURSIVE Extended(_, _, _)
\* the grid after push_row_mut on the first n of the rows rs, in order
Extended(g, rs, n) ==
    IF n = 0 THEN g ELSE Pushed(Extended(g, rs, n - 1), rs[n])

\* Grid::new
NewGrid ==
    [rows |-> <<>>, width |-> Shrink, height |-> Shrink,
     padding |-> [top |-> 0, right |-> 0, bottom |-> 0, left |-> 0],
     horizontal_align |-> "Left", vertical_align |-> "Center",
     column_spacing |-> 0, row_spacing |-> 0, axis |-> "Horizontal"]

\* the variables the builders leave alone
unbuilt ==
    <<limits, pc, loop, mainv, crossv, prim_cross_factor, nodes, out, wrapped,
      elts_trees, calls, visited, prev, parsed_input, content, handle, hist>>

\* A grid fresh from Grid::new, not laid out.
InitBuild ==
    /\ grid = NewGrid
    /\ limits = [max_w |-> MaxLimit, max_h |-> MaxLimit - 1]
    /\ InitLocals
    /\ built = NewGrid
    /\ NoInput
    /\ NoContent

\* the rows the builders have pushed so far
PushedRows == built.rows

\* a builder that writes one field of the grid
Set(f, v) ==
    /\ grid' = [grid EXCEPT ![f] = v]
    /\ built' = [built EXCEPT ![f] = v]
    /\ UNCHANGED unbuilt

\* Grid::width, Grid::height
width == \E w \in BuildLengths : Set("width", w)
height == \E h \in BuildLengths : Set("height", h)

\* Grid::column_spacing, Grid::row_spacing
column_spacing == \E sp \in Spacings : Set("column_spacing", sp[1])
row_spacing == \E sp \in Spacings : Set("row_spacing", sp[2])

\* Grid::padding
padding == \E st \in Styles : Set("padding", st.padding)

\* Grid::align_x, Grid::align_y
align_x == \E st \in Styles : Set("horizontal_align", st.horizontal_align)
align_y == \E st \in Styles : Set("vertical_align", st.vertical_align)

\* Grid::main_axis on a grid that is not laid out
main_axis_unlaid == \E ax \in {"Horizontal", "Vertical"} : Set("axis", ax)

\* Grid::push_row_mut: the size hints of the row are enclosed, the row is pushed
push_row_mut ==
    /\ Len(rows) < MaxRows
    /\ \E row \in BuildRows :
          /\ grid' = Pushed(grid, row)
          /\ built' = [built EXCEPT !.rows = Append(PushedRows, row)]
    /\ UNCHANGED unbuilt

\* Grid::push_row: push_row_mut on the grid it owns, which it returns
push_row == push_row_mut

\* Grid::extend_mut: push_row_mut for each of the rows, in order
extend_mut ==
    /\ \E rs \in UNION { [1..n -> BuildRows] : n \in 0..(MaxRows - Len(rows)) } :
          /\ grid' = Extended(grid, rs, Len(rs))
          /\ built' = [built EXCEPT !.rows = PushedRows \o rs]
    /\ UNCHANGED unbuilt

\* Grid::extend: extend_mut on the grid it owns, which it returns
extend == extend_mut

NextBuild ==
    \/ width
    \/ height
    \/ column_spacing
    \/ row_spacing
    \/ padding
    \/ align_x
    \/ align_y
    \/ main_axis_unlaid
    \/ push_row
    \/ push_row_mut
    \/ extend
    \/ extend_mut

\* A grid under construction: the builders in any order.
SpecBuild == InitBuild /\ [][NextBuild]_vars

\* ------------------------------------------------------------------ C30

\* what the builders of a field have last set, Grid::new's value before any
LastSet(f) == built[f]

\* a row with a child that fills the width has been pushed
PushedFill ==
    \E a \in 1..Len(rows) : \E b \in 1..Len(rows[a]) : rows[a][b].width.k = "FillPortion"

\* C30: push_row, push_row_mut, extend and extend_mut only append rows: after
\* any sequence of builder calls the rows are the rows pushed, in order, the
\* grid's width and height are what new() or the last width() and height()
\* set (a Shrink grid stays Shrink under a child that fills), and the padding,
\* the spacing, the alignment and the axis are what was last set.
C30_PushOnlyAppends ==
    pc = "start" =>
        /\ rows = PushedRows
        /\ \A f \in {"width", "height", "padding", "column_spacing", "row_spacing",
                     "horizontal_align", "vertical_align", "axis"} :
              grid[f] = LastSet(f)

\* C30 witness: a vertical grid of width Shrink and height Fixed(5), under
\* padding, with two rows pushed, a child of which fills the width: the width
\* is Shrink still.
C30_Witness ==
    /\ built # <<>>
    /\ Len(rows) = 2
    /\ PushedFill
    /\ grid.width = Shrink
    /\ grid.height = Fixed(5)
    /\ grid.padding.left > 0
    /\ grid.axis = "Vertical"

\* ------------------------------------------------------------------ ParsedInput

\* the closures given to on_input and on_paste, the messages given to on_submit
Handlers == {"f", "g"}
Messages == {"m", "n"}

\* the text the inner TextInput reports, and how many messages one event makes
EventStrings == { s \in InputStrings : Len(s) <= 1 \/ s = <<"1", "0">> }
MaxEmitted == 2

\* ParsedInput::new: the inner TextInput holds no message, the outer no handler
ParsedInputNew(c) ==
    [text_input |-> [value |-> c.string, on_input |-> FALSE, on_paste |-> FALSE,
                     on_submit |-> FALSE, secure |-> FALSE],
     on_input |-> None, on_paste |-> None, on_submit |-> None]

\* ParsedInput::secure, one of the builders that only configure the TextInput
Secure(w, is_secure) == [w EXCEPT !.text_input.secure = is_secure]

\* ParsedInput::on_input
OnInput(w, f) == [w EXCEPT !.text_input.on_input = TRUE, !.on_input = f]

\* ParsedInput::on_submit
OnSubmit(w, m) == [w EXCEPT !.text_input.on_submit = TRUE, !.on_submit = m]

\* An on_paste that hands InnerMessage::Paste to the TextInput and keeps no
\* handler of its own.
OnPasteInnerOnly(w, f) == [w EXCEPT !.text_input.on_paste = TRUE]

\* ParsedInput::on_paste
OnPaste(w, f) == [w EXCEPT !.text_input.on_paste = TRUE, !.on_paste = f]

\* what a builder returns, or the panic it ends with
Built(w) == [panic |-> "none", w |-> w]
Panicked(by, w) == [panic |-> by, w |-> w]

\* ParsedInput::on_input_maybe
OnInputMaybe(w, f) == IF f = None THEN Built(w) ELSE Built(OnInput(w, f))

\* ParsedInput::on_submit_maybe: None => todo!()
OnSubmitMaybe(w, m) == IF m = None THEN Panicked("todo", w) ELSE Built(OnSubmit(w, m))

\* ParsedInput::on_paste_maybe
OnPasteMaybe(w, f) == IF f = None THEN Built(w) ELSE Built(OnPaste(w, f))

\* InnerMessage
Input(str) == [k |-> "Input", str |-> str]
Paste(str) == [k |-> "Paste", str |-> str]
Submit == [k |-> "Submit", str |-> <<>>]

\* The inner messages a TextInput<InnerMessage> can publish: those it was
\* handed a constructor or a value of, it has no other way to make one.
CanEmit(text_input) ==
    (IF text_input.on_input THEN { Input(s) : s \in EventStrings } ELSE {})
      \cup (IF text_input.on_paste THEN { Paste(s) : s \in EventStrings } ELSE {})
      \cup (IF text_input.on_submit THEN {Submit} ELSE {})

\* the closure of shell.merge: the expect on a missing handler panics
Expects(w, inner) ==
    CASE inner.k = "Input" -> w.on_input = None
      [] inner.k = "Paste" -> w.on_paste = None
      [] OTHER -> w.on_submit = None

\* the closure of shell.merge: the outer message made of an inner one
Merge(w, inner) ==
    CASE inner.k = "Input" -> [by |-> w.on_input, parsed |-> from_string(inner.str)]
      [] inner.k = "Paste" -> [by |-> w.on_paste, parsed |-> from_string(inner.str)]
      [] OTHER -> [by |-> "on_submit", parsed |-> w.on_submit]

\* the variables a ParsedInput leaves alone
uninput ==
    <<grid, limits, pc, loop, mainv, crossv, prim_cross_factor, nodes, out, wrapped,
      elts_trees, calls, visited, prev, built, content, handle, hist>>

\* A ParsedInput fresh from ParsedInput::new over a Content, next to an empty
\* grid that is not laid out.
InitInput ==
    /\ grid = NewGrid
    /\ limits = [max_w |-> 0, max_h |-> 0]
    /\ InitLocals
    /\ NoBuilder
    /\ \E v \in {0, MaxValue} :
          /\ content = new(v)
          /\ parsed_input = [panic |-> "none", w |-> ParsedInputNew(new(v)),
                             last |-> [op |-> "new", arg |-> None, before |-> ParsedInputNew(new(v)),
                                       inner |-> <<>>, published |-> <<>>]]
    /\ handle = "none"
    /\ hist = <<>>

\* A builder call on the widget: what it returns or the panic it ends with,
\* and the call and the widget it was made on.
BuilderCall(op, arg, result) ==
    /\ parsed_input.panic = "none"
    /\ parsed_input' = [panic |-> result.panic, w |-> result.w,
                        last |-> [op |-> op, arg |-> arg, before |-> parsed_input.w,
                                  inner |-> <<>>, published |-> <<>>]]
    /\ UNCHANGED uninput

secure == \E b \in {"true", "false"} : BuilderCall("secure", b, Built(Secure(parsed_input.w, b = "true")))

on_input == \E f \in Handlers : BuilderCall("on_input", f, Built(OnInput(parsed_input.w, f)))

on_input_maybe ==
    \E f \in Handlers \cup {None} :
        BuilderCall("on_input_maybe", f, OnInputMaybe(parsed_input.w, f))

on_submit == \E m \in Messages : BuilderCall("on_submit", m, Built(OnSubmit(parsed_input.w, m)))

on_submit_maybe ==
    \E m \in Messages \cup {None} :
        BuilderCall("on_submit_maybe", m, OnSubmitMaybe(parsed_input.w, m))

on_paste == \E f \in Handlers : BuilderCall("on_paste", f, Built(OnPaste(parsed_input.w, f)))

on_paste_maybe ==
    \E f \in Handlers \cup {None} :
        BuilderCall("on_paste_maybe", f, OnPasteMaybe(parsed_input.w, f))

\* Widget::on_event of ParsedInput: the inner TextInput publishes some inner
\* messages in a sub-shell, shell.merge maps each to an outer message, in
\* order; a missing handler panics in the expect.
ParsedInputOnEvent ==
    /\ parsed_input.panic = "none"
    /\ \E inner \in UNION { [1..n -> CanEmit(parsed_input.w.text_input)] : n \in 0..MaxEmitted } :
          LET w == parsed_input.w
              expects == \E k \in 1..Len(inner) : Expects(w, inner[k])
          IN  parsed_input' =
                [panic |-> IF expects THEN "expect" ELSE "none",
                 w |-> w,
                 last |-> [op |-> "on_event", arg |-> None, before |-> w, inner |-> inner,
                           published |-> IF expects THEN <<>>
                                         ELSE [k \in 1..Len(inner) |-> Merge(w, inner[k])]]]
    /\ UNCHANGED uninput

NextInput ==
    \/ secure
    \/ on_input
    \/ on_input_maybe
    \/ on_submit
    \/ on_submit_maybe
    \/ on_paste
    \/ on_paste_maybe
    \/ ParsedInputOnEvent

\* A ParsedInput under construction and in use.
SpecInput == InitInput /\ [][NextInput]_vars

\* ------------------------------------------------------------------ C21

\* C21: on_submit_maybe sets the submit message only when it is given one:
\* on_submit_maybe(None) returns the widget as it was, no submit handler
\* registered by it, without panicking, as on_input_maybe(None) and
\* on_paste_maybe(None) do, and on_submit_maybe(Some(m)) does what
\* on_submit(m) does.
C21_SubmitMaybe ==
    /\ parsed_input.last.op \in {"on_input_maybe", "on_paste_maybe", "on_submit_maybe"} =>
          (parsed_input.last.arg = None =>
              /\ parsed_input.panic = "none"
              /\ parsed_input.w = parsed_input.last.before)
    /\ (parsed_input.last.op = "on_submit_maybe" /\ parsed_input.last.arg # None) =>
          /\ parsed_input.panic = "none"
          /\ parsed_input.w = OnSubmit(parsed_input.last.before, parsed_input.last.arg)

\* ------------------------------------------------------------------ C28

\* C28: in every ParsedInput that builder calls have built, the inner text
\* input holds the Input, Paste or Submit message exactly when the outer
\* handler on_input, on_paste or on_submit is registered; on_event never
\* reaches the expect of a missing handler, and every inner message becomes
\* one outer message, in order: the handler applied to Parsed::from_string of
\* the text for Input and Paste, the submit message for Submit.
C28_HandlersInStep ==
    /\ parsed_input.panic # "expect"
    /\ parsed_input.panic = "none" =>
          LET w == parsed_input.w
              last == parsed_input.last
          IN  /\ w.text_input.on_input <=> w.on_input # None
              /\ w.text_input.on_paste <=> w.on_paste # None
              /\ w.text_input.on_submit <=> w.on_submit # None
              /\ last.op = "on_event" =>
                    /\ Len(last.published) = Len(last.inner)
                    /\ \A k \in 1..Len(last.inner) :
                          CASE last.inner[k].k = "Input" ->
                                 last.published[k] =
                                   [by |-> w.on_input,
                                    parsed |-> [string |-> last.inner[k].str,
                                                parsed |-> parse(last.inner[k].str)]]
                            [] last.inner[k].k = "Paste" ->
                                 last.published[k] =
                                   [by |-> w.on_paste,
                                    parsed |-> [string |-> last.inner[k].str,
                                                parsed |-> parse(last.inner[k].str)]]
                            [] OTHER ->
                                 last.published[k] = [by |-> "on_submit", parsed |-> w.on_submit]

\* C28 witness: a widget with the three handlers, the input handler set
\* twice, whose last event made a pasted text that parses and a typed one that
\* does not: two outer messages, from the paste handler and from the input
\* handler set last.
C28_Witness ==
    /\ parsed_input # <<>>
    /\ parsed_input.panic = "none"
    /\ parsed_input.last.op = "on_event"
    /\ parsed_input.w.on_input = "g"
    /\ parsed_input.w.on_paste = "f"
    /\ parsed_input.w.on_submit = "m"
    /\ parsed_input.last.inner = <<Paste(<<"1", "0">>), Input(<<"x">>)>>
    /\ parsed_input.last.published[1] = [by |-> "f", parsed |-> [string |-> <<"1", "0">>, parsed |-> Ok(10)]]
    /\ parsed_input.last.published[2].by = "g"
    /\ ~parsed_input.last.published[2].parsed.parsed.ok

====
